---- MODULE Spec2Model ----
(***************************************************************************)
(* EnergyLink: the E3DC command executor (server/e3dc-client.ts) and the   *)
(* file-backed store (server/storage.ts).                                  *)
(*                                                                         *)
(* Strings whose content the code inspects (commands, captured output) are *)
(* sequences of one-character strings.  An optional value (a field that    *)
(* may be undefined, a nullable reference) is <<>> when absent and <<v>>   *)
(* when present.                                                           *)
(***************************************************************************)
EXTENDS Integers, Sequences, FiniteSets, TLC

None == <<>>
Some(v) == <<v>>

Max(S) == CHOOSE x \in S : \A y \in S : y <= x

(***************************************************************************)
(* Text primitives of the JavaScript regular expressions in sanitizeOutput *)
(***************************************************************************)
UpperChars == <<"A", "B", "C", "D", "E", "F", "G", "H", "I", "J", "K", "L", "M", "N", "O", "P", "Q", "R", "S", "T", "U", "V", "W", "X", "Y", "Z">>
LowerChars == <<"a", "b", "c", "d", "e", "f", "g", "h", "i", "j", "k", "l", "m", "n", "o", "p", "q", "r", "s", "t", "u", "v", "w", "x", "y", "z">>
DigitChars == <<"0", "1", "2", "3", "4", "5", "6", "7", "8", "9">>

Range(f) == {f[i] : i \in DOMAIN f}

\* the i flag: characters are compared after case folding
FoldMap == [c \in Range(UpperChars) |-> LowerChars[CHOOSE i \in DOMAIN UpperChars : UpperChars[i] = c]]

ToLower(c) == IF c \in DOMAIN FoldMap THEN FoldMap[c] ELSE c

\* \s and \S
IsWhitespace(c) == c \in {" ", "\t", "\n", "\r"}

\* \w, as used by \b
WordChars == Range(UpperChars) \cup Range(LowerChars) \cup Range(DigitChars) \cup {"_"}

IsWordChar(c) == c \in WordChars

\* String.prototype.trim() === ''
IsBlank(s) == \A i \in DOMAIN s : IsWhitespace(s[i])

\* String.prototype.includes
Contains(s, sub) ==
  \E i \in 1..(Len(s) - Len(sub) + 1) : \A j \in 1..Len(sub) : s[i + j - 1] = sub[j]

\* the literal lit occurs in s at index i (an escaped literal, no flag i)
MatchLiteralAt(s, i, lit) ==
  /\ i + Len(lit) - 1 <= Len(s)
  /\ \A j \in 1..Len(lit) : s[i + j - 1] = lit[j]

\* the literal lit occurs in s at index i, ignoring case (flag i)
MatchLiteralAtCI(s, i, lit) ==
  /\ i + Len(lit) - 1 <= Len(s)
  /\ \A j \in 1..Len(lit) : ToLower(s[i + j - 1]) = ToLower(lit[j])

\* last index of the longest run of [=\s] characters that starts at j (j - 1: none)
SepRunEnd(s, j) ==
  Max({j - 1} \cup {e \in j..Len(s) : \A k \in j..e : s[k] = "=" \/ IsWhitespace(s[k])})

\* last index of the longest run of \S characters that starts at j (j - 1: none)
NonWsRunEnd(s, j) ==
  Max({j - 1} \cup {e \in j..Len(s) : \A k \in j..e : ~IsWhitespace(s[k])})

\* \b at index i: exactly one of s[i-1], s[i] is a word character
WordBoundary(s, i) ==
  LET before == i > 1 /\ i - 1 <= Len(s) /\ IsWordChar(s[i - 1])
      after == i >= 1 /\ i <= Len(s) /\ IsWordChar(s[i])
  IN before # after

(***************************************************************************)
(* E3dcClient.sanitizeOutput                                               *)
(***************************************************************************)
COMMAND_REDACTED == <<"[", "C", "O", "M", "M", "A", "N", "D", " ", "R", "E", "D", "A", "C", "T", "E", "D", "]">>
REDACTED == <<"[", "R", "E", "D", "A", "C", "T", "E", "D", "]">>
STARS == <<"*", "*", "*">>

\* the flags of the first eight patterns: /<flag>[=\s]+\S+/gi
FlagPatterns ==
  << <<"-", "-", "p", "a", "s", "s", "w", "o", "r", "d">>,
     <<"-", "-", "p", "a", "s", "s">>,
     <<"-", "-", "t", "o", "k", "e", "n">>,
     <<"-", "-", "a", "u", "t", "h">>,
     <<"-", "-", "a", "p", "i", "k", "e", "y">>,
     <<"-", "-", "a", "p", "i", "-", "k", "e", "y">>,
     <<"-", "-", "s", "e", "c", "r", "e", "t">>,
     <<"-", "p">> >>

\* the alternation of the ninth pattern: /\b(password|...|key)[=:]\S+/gi
NamePatterns ==
  << <<"p", "a", "s", "s", "w", "o", "r", "d">>,
     <<"p", "a", "s", "s">>,
     <<"t", "o", "k", "e", "n">>,
     <<"a", "u", "t", "h">>,
     <<"a", "p", "i", "k", "e", "y">>,
     <<"a", "p", "i", "-", "k", "e", "y">>,
     <<"s", "e", "c", "r", "e", "t">>,
     <<"k", "e", "y">> >>

\* the nine patterns, in the order of the array
sensitivePatterns ==
  [i \in 1..(Len(FlagPatterns) + 1) |->
     IF i <= Len(FlagPatterns)
     THEN [kind |-> "flag", flag |-> FlagPatterns[i]]
     ELSE [kind |-> "names", flag |-> <<>>]]

\* /<flag>[=\s]+\S+/i tried at index i: the index of the match's last character, 0 if
\* there is no match.  [=\s]+ is greedy and gives characters back until \S+ can match.
FlagMatchEnd(s, i, flag) ==
  IF ~MatchLiteralAtCI(s, i, flag) THEN 0
  ELSE LET j == i + Len(flag)
           r == SepRunEnd(s, j)
           Ks == {k \in j..r : k + 1 <= Len(s) /\ ~IsWhitespace(s[k + 1])}
       IN IF Ks = {} THEN 0 ELSE NonWsRunEnd(s, Max(Ks) + 1)

\* the name alternative n followed by [=:]\S+ at index i
NameAltMatches(s, i, n) ==
  /\ MatchLiteralAtCI(s, i, n)
  /\ i + Len(n) + 1 <= Len(s)
  /\ s[i + Len(n)] \in {"=", ":"}
  /\ ~IsWhitespace(s[i + Len(n) + 1])

\* /\b(password|...|key)[=:]\S+/i tried at index i: last index of the match, 0 if none
NameMatchEnd(s, i) ==
  LET alts == {a \in DOMAIN NamePatterns : NameAltMatches(s, i, NamePatterns[a])}
  IN IF ~WordBoundary(s, i) \/ alts = {} THEN 0
     ELSE LET a == CHOOSE x \in alts : \A y \in alts : x <= y
          IN NonWsRunEnd(s, i + Len(NamePatterns[a]) + 1)

PatternMatchEnd(s, i, p) ==
  IF p.kind = "flag" THEN FlagMatchEnd(s, i, p.flag) ELSE NameMatchEnd(s, i)

\* value.replace(/<escaped literal>/g, marker), scanning from index i
RECURSIVE ReplaceLiteralFrom(_, _, _, _)
ReplaceLiteralFrom(s, lit, marker, i) ==
  IF i > Len(s) THEN (IF lit = <<>> THEN marker ELSE <<>>)
  ELSE IF lit = <<>> THEN marker \o <<s[i]>> \o ReplaceLiteralFrom(s, lit, marker, i + 1)
  ELSE IF MatchLiteralAt(s, i, lit)
       THEN marker \o ReplaceLiteralFrom(s, lit, marker, i + Len(lit))
       ELSE <<s[i]>> \o ReplaceLiteralFrom(s, lit, marker, i + 1)

ReplaceLiteral(s, lit, marker) == ReplaceLiteralFrom(s, lit, marker, 1)

\* value.replace(pattern, '[REDACTED]') with the g flag, scanning from index i
RECURSIVE ReplacePatternFrom(_, _, _)
ReplacePatternFrom(s, p, i) ==
  IF i > Len(s) THEN <<>>
  ELSE LET e == PatternMatchEnd(s, i, p)
       IN IF e > 0
          THEN REDACTED \o ReplacePatternFrom(s, p, e + 1)
          ELSE <<s[i]>> \o ReplacePatternFrom(s, p, i + 1)

\* sensitivePatterns.forEach(...), patterns k..9
RECURSIVE ApplyPatternsFrom(_, _)
ApplyPatternsFrom(s, k) ==
  IF k > Len(sensitivePatterns) THEN s
  ELSE ApplyPatternsFrom(ReplacePatternFrom(s, sensitivePatterns[k], 1), k + 1)

\* extraSecrets.forEach(...), secrets k..n; blank secrets are skipped
RECURSIVE ApplySecretsFrom(_, _, _)
ApplySecretsFrom(s, extraSecrets, k) ==
  IF k > Len(extraSecrets) THEN s
  ELSE ApplySecretsFrom(
         IF extraSecrets[k] # <<>> /\ ~IsBlank(extraSecrets[k])
         THEN ReplaceLiteral(s, extraSecrets[k], STARS)
         ELSE s,
         extraSecrets, k + 1)

\* a first step that replaces nothing
RedactCommand_Kept(value, command) == value

\* step 1: the command string itself
RedactCommand(value, command) == ReplaceLiteral(value, command, COMMAND_REDACTED)

sanitizeOutput(value, command, extraSecrets) ==
  ApplySecretsFrom(ApplyPatternsFrom(RedactCommand(value, command), 1), extraSecrets, 1)

(***************************************************************************)
(* State                                                                   *)
(***************************************************************************)
VARIABLES
  \* E3dcClient
  config,            \* this.config: None (null) or Some(E3dcConfig)
  lastCommandTime,   \* this.lastCommandTime
  now,               \* Date.now()
  calls,             \* the command calls issued so far, in order of invocation
  thrown,            \* the error the last operation threw to its caller ("": none)
  \* what one command execution writes (lines 90-129)
  isDevelopment,     \* process.env.NODE_ENV !== 'production'
  frame,             \* the locals of the execution: commandName, command, sensitiveValues
  captured,          \* what execAsync produced: None while the process runs
  console,           \* the console lines written after the process ended
  rejection,         \* the message of the error the call fails with ("": none)
  \* one call of sanitizeOutput
  sanitizeArgs,      \* None, or Some of its arguments (and the credential placed in value)
  sanitized,         \* None, or Some(its result)
  \* MemStorage
  settings,          \* this.settings
  settingsFile,      \* data/settings.json: None (no file) or Some(the object written)
  writeFailures,     \* how many writes of a file have failed so far
  toggle,            \* history: where a demo-mode round trip of the stored value stands
  dataDir,           \* the directory data/: "present", or missing and "creatable" or "blocked"
  constructed,       \* new MemStorage(): "no" (not run yet), "yes", or "threw"
  controlState,      \* this.controlState
  controlStateFile,  \* data/control-state.json
  plugStatusTracking,  \* this.plugStatusTracking
  plugTrackingFile,  \* data/plug-tracking.json
  chargingContext,   \* this.chargingContext
  chargingContextFile,  \* data/charging-context.json
  callers,           \* two callers of updateControlState: what each passes, and whether it has
  held,              \* the tracking objects callers hold; stored: it is the object the store references
  logs               \* this.logs: the retained entries, each by the number of its id

execVars == <<config, lastCommandTime, now, calls, thrown>>
logVars == <<isDevelopment, frame, captured, console, rejection>>
sanVars == <<sanitizeArgs, sanitized>>
docVars == <<dataDir, constructed, controlState, controlStateFile, plugStatusTracking,
             plugTrackingFile, chargingContext, chargingContextFile, callers, held, logs>>
storeVars == <<settings, settingsFile, writeFailures, toggle, docVars>>

vars == <<execVars, logVars, sanVars, storeVars>>

otherThanExec == <<logVars, sanVars, storeVars>>
otherThanLog == <<execVars, sanVars, storeVars>>
otherThanSan == <<execVars, logVars, storeVars>>
otherThanStore == <<execVars, logVars, sanVars>>

(***************************************************************************)
(* E3dcClient                                                              *)
(***************************************************************************)
RATE_LIMIT_MS == 5000
PreviewChars == 200

\* bounds of the executor model
MaxCalls == 2
MaxTicks == 2
MaxWriteFailures == 1
MaxHeld == 2
MaxLogId == 1100
TickMs == 2500
StartTime == 1000

CmdLockOn == <<"l", "k", " ", "1">>
CmdLockOff == <<"l", "k", " ", "0">>
CmdGridOn == <<"g", "c", " ", "1">>
CmdGridOff == <<"g", "c", " ", "0">>

\* the configurations a caller passes to configure(): one with four commands, one
\* whose commands are a real one, an absent one, an empty one and a blank one, and
\* one that is not enabled
Configs ==
  { [enabled |-> TRUE, dischargeLockEnableCommand |-> Some(CmdLockOn),
     dischargeLockDisableCommand |-> Some(CmdLockOff),
     gridChargeEnableCommand |-> Some(CmdGridOn),
     gridChargeDisableCommand |-> Some(CmdGridOff),
     gridChargeDuringNightCharging |-> TRUE],
    [enabled |-> TRUE, dischargeLockEnableCommand |-> Some(CmdLockOn),
     dischargeLockDisableCommand |-> None,
     gridChargeEnableCommand |-> Some(<<>>),
     gridChargeDisableCommand |-> Some(<<" ", " ">>),
     gridChargeDuringNightCharging |-> FALSE],
    [enabled |-> FALSE, dischargeLockEnableCommand |-> Some(CmdLockOn),
     dischargeLockDisableCommand |-> Some(CmdLockOff),
     gridChargeEnableCommand |-> Some(CmdGridOn),
     gridChargeDisableCommand |-> Some(CmdGridOff),
     gridChargeDuringNightCharging |-> FALSE] }

\* what the spawned process can print, and the stderr of one that fails
Outputs == { <<>>, <<"o", "k">>, <<"n", "o">>, <<"k", "e", "y", "=", "s", "3">> }
ErrOutputs == { <<>>, <<"e", "r">>, <<"n", "o">> }

\* child_process.exec rejects with "Command failed: <command>\n<stderr>"
CommandFailed == <<"C", "o", "m", "m", "a", "n", "d", " ", "f", "a", "i", "l", "e", "d", ":", " ">>
ExecErrorMessage(command, stderr) == CommandFailed \o command \o <<"\n">> \o stderr

\* a console line: the stream, the fixed wording, the logical command name, the
\* number it prints (-1: none) and the variable text it prints (<<>>: none)
Line(stream, msg, name, num, text) ==
  [stream |-> stream, msg |-> msg, name |-> name, num |-> num, text |-> text]

\* String.prototype.slice(0, n)
Slice(s, n) == SubSeq(s, 1, IF Len(s) < n THEN Len(s) ELSE n)

isConfigured == config # None /\ config[1].enabled = TRUE

isGridChargeDuringNightChargingEnabled ==
  config # None /\ config[1].gridChargeDuringNightCharging = TRUE

\* getSensitiveValues(): the truthy command strings of the current configuration
SensitiveValuesOf(cfg) ==
  IF cfg = None THEN <<>>
  ELSE LET c == cfg[1]
           pick(v) == IF v # None /\ v[1] # <<>> THEN <<v[1]>> ELSE <<>>
       IN pick(c.dischargeLockEnableCommand) \o pick(c.dischargeLockDisableCommand)
            \o pick(c.gridChargeEnableCommand) \o pick(c.gridChargeDisableCommand)

getSensitiveValues == SensitiveValuesOf(config)

\* the command string and the logical name each operation passes to executeCommand
Ops == {"lockDischarge", "unlockDischarge", "enableGridCharge", "disableGridCharge"}

CommandFor(cfg, op) ==
  CASE op = "lockDischarge" -> cfg.dischargeLockEnableCommand
    [] op = "unlockDischarge" -> cfg.dischargeLockDisableCommand
    [] op = "enableGridCharge" -> cfg.gridChargeEnableCommand
    [] op = "disableGridCharge" -> cfg.gridChargeDisableCommand

CommandName(op) ==
  CASE op = "lockDischarge" -> "Entladesperre aktivieren"
    [] op = "unlockDischarge" -> "Entladesperre deaktivieren"
    [] op = "enableGridCharge" -> "Netzstrom-Laden aktivieren"
    [] op = "disableGridCharge" -> "Netzstrom-Laden deaktivieren"

\* the emptiness test without the trim
IsNoCommand_NoTrim(command) == command = None \/ command[1] = <<>>

\* !command || command.trim() === ''
IsNoCommand(command) == command = None \/ command[1] = <<>> \/ IsBlank(command[1])

\* the throttle test with its comparison turned round
MustWait_Reversed(t, last) == last > 0 /\ t - last > RATE_LIMIT_MS

\* this.lastCommandTime > 0 && timeSinceLastCommand < this.RATE_LIMIT_MS
MustWait(t, last) == last > 0 /\ t - last < RATE_LIMIT_MS

\* a wait that grows with the time since the last command
waitTime_Growing(t, last) == RATE_LIMIT_MS + (t - last)

\* const waitTime = this.RATE_LIMIT_MS - timeSinceLastCommand
waitTime(t, last) == RATE_LIMIT_MS - (t - last)

\* startAt and wakeAt of a call that has not started a process, has no timer
NotStarted == 0 - 1

\* the frame of one call of an async command method: its arguments and locals while it
\* is pending, its outcome once settled, and (op, startAt, after, calledAt) as its
\* history; admitted is the configuration the method read the command from
NewCall(op, name, command) ==
  [op |-> op, name |-> name, command |-> command, pc |-> "new",
   wakeAt |-> NotStarted, startAt |-> NotStarted,
   after |-> {i \in DOMAIN calls : calls[i].pc = "resolved" /\ calls[i].startAt # NotStarted},
   sens |-> <<>>, error |-> "", calledAt |-> now, admitted |-> config]

Running == {i \in DOMAIN calls : calls[i].pc = "running"}
Waiting == {i \in DOMAIN calls : calls[i].pc = "waiting"}

\* the call's promise settles: the frame is gone, the outcome stays
Settled(call, outcome, error) ==
  [call EXCEPT !.pc = outcome, !.error = error, !.command = None, !.sens = <<>>,
               !.admitted = None]

\* lines 90-96: read the secrets, log "Fuehre aus", spawn the process
Spawned(call) ==
  [call EXCEPT !.pc = "running", !.wakeAt = NotStarted, !.startAt = now,
               !.sens = getSensitiveValues]

\* executeCommand up to its first await (or its return)
executeCommand(op, command, commandName) ==
  LET call == NewCall(op, commandName, command)
  IN /\ thrown' = ""
     /\ IF IsNoCommand(command)
        THEN /\ calls' = Append(calls, Settled(call, "resolved", ""))
        ELSE IF MustWait(now, lastCommandTime)
        THEN /\ calls' = Append(calls, [call EXCEPT !.pc = "waiting",
                                          !.wakeAt = now + waitTime(now, lastCommandTime)])
        ELSE /\ calls' = Append(calls, Spawned(call))

\* an unconfigured call that returns quietly
NotConfigured_Silent(op, commandName) ==
  /\ calls' = Append(calls, Settled(NewCall(op, commandName, None), "resolved", ""))
  /\ thrown' = ""

\* if (!this.config) throw new Error('E3DC not configured')
NotConfigured(op, commandName) ==
  /\ calls' = Append(calls, Settled(NewCall(op, commandName, None), "rejected",
                                    "E3DC not configured"))
  /\ thrown' = ""

\* a configure that stores before it tests
Configure_StoreFirst(cfg) ==
  /\ config' = Some(cfg)
  /\ thrown' = IF ~cfg.enabled THEN "E3DC not enabled" ELSE ""
  /\ UNCHANGED <<lastCommandTime, now, calls, otherThanExec>>

Configure(cfg) ==
  /\ IF ~cfg.enabled
     THEN /\ thrown' = "E3DC not enabled"
          /\ UNCHANGED config
     ELSE /\ thrown' = ""
          /\ config' = Some(cfg)
  /\ UNCHANGED <<lastCommandTime, now, calls, otherThanExec>>

Disconnect ==
  /\ config' = None
  /\ thrown' = ""
  /\ UNCHANGED <<lastCommandTime, now, calls, otherThanExec>>

LockDischarge ==
  /\ Len(calls) < MaxCalls
  /\ IF config = None
     THEN NotConfigured("lockDischarge", CommandName("lockDischarge"))
     ELSE executeCommand("lockDischarge", CommandFor(config[1], "lockDischarge"), CommandName("lockDischarge"))
  /\ UNCHANGED <<config, lastCommandTime, now, otherThanExec>>

UnlockDischarge ==
  /\ Len(calls) < MaxCalls
  /\ IF config = None
     THEN NotConfigured("unlockDischarge", CommandName("unlockDischarge"))
     ELSE executeCommand("unlockDischarge", CommandFor(config[1], "unlockDischarge"), CommandName("unlockDischarge"))
  /\ UNCHANGED <<config, lastCommandTime, now, otherThanExec>>

EnableGridCharge ==
  /\ Len(calls) < MaxCalls
  /\ IF config = None
     THEN NotConfigured("enableGridCharge", CommandName("enableGridCharge"))
     ELSE executeCommand("enableGridCharge", CommandFor(config[1], "enableGridCharge"), CommandName("enableGridCharge"))
  /\ UNCHANGED <<config, lastCommandTime, now, otherThanExec>>

DisableGridCharge ==
  /\ Len(calls) < MaxCalls
  /\ IF config = None
     THEN NotConfigured("disableGridCharge", CommandName("disableGridCharge"))
     ELSE executeCommand("disableGridCharge", CommandFor(config[1], "disableGridCharge"), CommandName("disableGridCharge"))
  /\ UNCHANGED <<config, lastCommandTime, now, otherThanExec>>

\* the setTimeout of line 87 fires: the call goes on with lines 90-96
TimerFired(c) ==
  /\ c \in Waiting
  /\ now >= calls[c].wakeAt
  /\ calls' = [calls EXCEPT ![c] = Spawned(calls[c])]
  /\ thrown' = ""
  /\ UNCHANGED <<config, lastCommandTime, now, otherThanExec>>

\* lines 98-118: what the call logs when the process has exited with status 0
SuccessLog(dev, name, command, sens, stdout, stderr) ==
  (IF stdout = <<>> THEN <<>>
   ELSE IF dev
   THEN <<Line("log", "Ausgabe [sanitized preview n chars]", name, Len(stdout),
               Slice(sanitizeOutput(stdout, command, sens), PreviewChars))>>
   ELSE <<Line("log", "Ausgabe erhalten (n Zeichen)", name, Len(stdout), <<>>)>>)
  \o
  (IF stderr = <<>> THEN <<>>
   ELSE IF dev
   THEN <<Line("error", "Fehler-Ausgabe [sanitized preview n chars]", name, Len(stderr),
               Slice(sanitizeOutput(stderr, command, sens), PreviewChars))>>
   ELSE <<Line("error", "Fehler-Ausgabe erhalten (n Zeichen)", name, Len(stderr), <<>>)>>)
  \o <<Line("log", "erfolgreich ausgefuehrt", name, -1, <<>>)>>

\* a failure log that prints the sanitized message in every build
FailureLog_AnyBuild(dev, name, command, sens, errorMessage) ==
  <<Line("error", "fehlgeschlagen:", name, -1,
         Slice(sanitizeOutput(errorMessage, command, sens), PreviewChars))>>

\* lines 119-127: what the call logs when the process failed
FailureLog(dev, name, command, sens, errorMessage) ==
  IF dev
  THEN <<Line("error", "fehlgeschlagen:", name, -1,
              Slice(sanitizeOutput(errorMessage, command, sens), PreviewChars))>>
  ELSE <<Line("error", "Befehlsausfuehrung fehlgeschlagen fuer:", name, -1, <<>>)>>

\* line 128: throw new Error(`Failed to execute ${commandName}`)
FailureError(name) == "Failed to execute " \o name

\* line 117, reached only when execAsync resolved
TimeAfterSuccess(t, last) == t

\* the catch block leaves lastCommandTime alone
TimeAfterFailure(t, last) == last

\* execAsync resolves (the process exited with status 0): lines 98-118
ExecSucceeded(c) ==
  /\ c \in Running
  /\ calls' = [calls EXCEPT ![c] = Settled(calls[c], "resolved", "")]
  /\ lastCommandTime' = TimeAfterSuccess(now, lastCommandTime)
  /\ thrown' = ""
  /\ UNCHANGED <<config, now, otherThanExec>>

\* execAsync rejects (the process failed): lines 119-129
ExecFailed(c) ==
  /\ c \in Running
  /\ calls' = [calls EXCEPT ![c] = Settled(calls[c], "rejected", FailureError(calls[c].name))]
  /\ lastCommandTime' = TimeAfterFailure(now, lastCommandTime)
  /\ thrown' = ""
  /\ UNCHANGED <<config, now, otherThanExec>>

\* time passes
Tick ==
  /\ now + TickMs <= StartTime + MaxTicks * TickMs
  /\ now' = now + TickMs
  /\ thrown' = ""
  /\ UNCHANGED <<config, lastCommandTime, calls, otherThanExec>>

\* time passes, also beyond the last Tick for as long as a setTimeout of line 87
\* is pending: the clock does not stop before a timer is due
Pass ==
  /\ \/ now + TickMs <= StartTime + MaxTicks * TickMs
     \/ \E c \in Waiting : now < calls[c].wakeAt
  /\ now' = now + TickMs
  /\ thrown' = ""
  /\ UNCHANGED <<config, lastCommandTime, calls, otherThanExec>>

(***************************************************************************)
(* What one command execution writes: executeCommand from line 90 on, for  *)
(* a call that has reached line 94 with its locals in frame                *)
(***************************************************************************)
\* the locals a call can hold at line 94: a non-blank command of an enabled
\* configuration, and the secrets of the configuration stored at that moment
Frames ==
  { [name |-> CommandName(op), command |-> CommandFor(cfg, op)[1], sens |-> sens] :
      <<cfg, op, sens>> \in
        { x \in Configs \X Ops \X ({SensitiveValuesOf(Some(c)) : c \in Configs} \cup {<<>>}) :
            x[1].enabled /\ ~IsNoCommand(CommandFor(x[1], x[2])) } }

\* the console lines of one execution of lines 94-127, given what execAsync produced
Written(dev, fr, cap) ==
  <<Line("log", "Fuehre aus", fr.name, -1, <<>>)>>
  \o (IF cap.ok THEN SuccessLog(dev, fr.name, fr.command, fr.sens, cap.stdout, cap.stderr)
      ELSE FailureLog(dev, fr.name, fr.command, fr.sens, cap.message))

\* the message of the error the call fails with
Rejected(fr, cap) == IF cap.ok THEN "" ELSE FailureError(fr.name)

\* execAsync resolved with {stdout, stderr}: lines 98-118
ProcessSucceeded(stdout, stderr) ==
  LET cap == [ok |-> TRUE, stdout |-> stdout, stderr |-> stderr, message |-> <<>>]
  IN /\ captured = None
     /\ captured' = Some(cap)
     /\ console' = Written(isDevelopment, frame, cap)
     /\ rejection' = Rejected(frame, cap)
     /\ UNCHANGED <<isDevelopment, frame, otherThanLog>>

\* execAsync rejected with an Error: lines 119-128
ProcessFailed(stderr) ==
  LET cap == [ok |-> FALSE, stdout |-> <<>>, stderr |-> stderr,
              message |-> ExecErrorMessage(frame.command, stderr)]
  IN /\ captured = None
     /\ captured' = Some(cap)
     /\ console' = Written(isDevelopment, frame, cap)
     /\ rejection' = Rejected(frame, cap)
     /\ UNCHANGED <<isDevelopment, frame, otherThanLog>>

(***************************************************************************)
(* sanitizeOutput as a function of its three arguments                     *)
(***************************************************************************)
\* the credential a token of the text carries
Credentials == { <<"a", "b", "c", "1", "2", "3">>, <<"Z", "q", "9">> }

\* --password, --pass, --token, --auth, --apikey, --api-key, --secret, -p
\* followed by "=", and the eight names followed by "=" or ":"
FlagTokens == { FlagPatterns[i] \o <<"=">> : i \in DOMAIN FlagPatterns }
NameTokens == { NamePatterns[i] \o sep : i \in DOMAIN NamePatterns, sep \in {<<"=">>, <<":">>} }
CasedTokens == { <<"-", "-", "T", "o", "k", "e", "n", "=">>, <<"K", "E", "Y", ":">> }
Tokens == FlagTokens \cup NameTokens \cup CasedTokens

Prefixes == { <<>>, <<"x", " ">>, <<"r", "u", "n", " ">> }
Suffixes == { <<>>, <<" ", "y">> }

\* command strings: one of the configured ones, and ones that share text with a flag
SanCommands == { CmdLockOn, <<"p", "a", "s", "s">>, <<"r", "u", "n", " ", "-", "-", "t", "o", "k", "e", "n">> }
SanSecrets == { <<>>, <<CmdLockOn, CmdLockOff>>, << <<"a", "b", "c">>, <<" ">> >> }

CredentialInputs ==
  { [value |-> pre \o tok \o cred \o post, command |-> cmd, extraSecrets |-> secs,
     credential |-> Some(cred)] :
      pre \in Prefixes, tok \in Tokens, cred \in Credentials, post \in Suffixes,
      cmd \in SanCommands, secs \in SanSecrets }

\* captured text made of command strings and other text: the executed command,
\* the other configured commands, parts of them, and words a tool prints
CmdRed == <<"R", "E", "D">>
Pieces ==
  { <<>>, CmdLockOn, CmdLockOff, CmdRed, <<"l">>, <<"k", " ", "1">>, <<"x", " ">> }
LiteralTexts == { a \o b \o c : a \in Pieces, b \in Pieces, c \in Pieces }

\* the executed command, and what getSensitiveValues() returns at line 91: the
\* commands of a configuration, of one that names CmdRed, or nothing
LiteralCommands == { CmdLockOn, CmdRed }
LiteralSecrets ==
  { SensitiveValuesOf(Some(c)) : c \in Configs } \cup { <<>>, <<CmdRed, CmdLockOff>> }

LiteralInputs ==
  { [value |-> v, command |-> cmd, extraSecrets |-> secs, credential |-> None] :
      v \in LiteralTexts, cmd \in LiteralCommands, secs \in LiteralSecrets }

SanInputs == CredentialInputs \cup LiteralInputs

\* one call of sanitizeOutput
Sanitize(in) ==
  /\ sanitizeArgs = None
  /\ sanitizeArgs' = Some(in)
  /\ sanitized' = Some(sanitizeOutput(in.value, in.command, in.extraSecrets))
  /\ UNCHANGED otherThanSan

(***************************************************************************)
(* MemStorage: the settings and the demo-mode transitions of saveSettings  *)
(***************************************************************************)
MockWallboxIp == "127.0.0.1"
MockE3dcIp == "127.0.0.1:5502"
MockOnUrl == "http://127.0.0.1:8083/fhem?cmd.autoWallboxPV=on"
MockOffUrl == "http://127.0.0.1:8083/fhem?cmd.autoWallboxPV=off"
DefaultWallboxIp == "192.168.40.16"
DefaultOnUrl == "http://192.168.40.11:8083/fhem?detail=autoWallboxPV&cmd.autoWallboxPV=set%20autoWallboxPV%20on"
DefaultOffUrl == "http://192.168.40.11:8083/fhem?detail=autoWallboxPV&cmd.autoWallboxPV=set%20autoWallboxPV%20off"

\* the defaults of loadSettingsFromFile; every optional field of a settings
\* object is None (absent) or Some(value)
DefaultSettings ==
  [wallboxIp |-> Some(DefaultWallboxIp), wallboxIpBackup |-> None,
   e3dcIp |-> None, e3dcIpBackup |-> None,
   pvSurplusOnUrl |-> Some(DefaultOnUrl), pvSurplusOnUrlBackup |-> None,
   pvSurplusOffUrl |-> Some(DefaultOffUrl), pvSurplusOffUrlBackup |-> None,
   demoMode |-> None,
   nightChargingSchedule |-> [enabled |-> FALSE, startTime |-> "00:00", endTime |-> "05:00"]]

\* JavaScript truthiness of an optional string, and of an optional boolean
Truthy(x) == x # None /\ x[1] # ""
IsTrue(x) == x = Some(TRUE)

\* a switch to demo mode that backs up no e3dcIp
EnterDemo_NoE3dcBackup(payload) ==
  LET wb == [payload EXCEPT !.wallboxIpBackup = payload.wallboxIp,
                             !.wallboxIp = Some(MockWallboxIp)]
      e3 == [wb EXCEPT !.e3dcIp = Some(MockE3dcIp)]
      on == IF Truthy(e3.pvSurplusOnUrl)
            THEN [e3 EXCEPT !.pvSurplusOnUrlBackup = e3.pvSurplusOnUrl,
                            !.pvSurplusOnUrl = Some(MockOnUrl)]
            ELSE e3
  IN IF Truthy(on.pvSurplusOffUrl)
     THEN [on EXCEPT !.pvSurplusOffUrlBackup = on.pvSurplusOffUrl,
                     !.pvSurplusOffUrl = Some(MockOffUrl)]
     ELSE on

\* lines 271-295: demo mode is switched on
EnterDemo(payload) ==
  LET wb == [payload EXCEPT !.wallboxIpBackup = payload.wallboxIp,
                             !.wallboxIp = Some(MockWallboxIp)]
      e3 == [wb EXCEPT !.e3dcIpBackup = IF Truthy(wb.e3dcIp) THEN wb.e3dcIp ELSE @,
                       !.e3dcIp = Some(MockE3dcIp)]
      on == IF Truthy(e3.pvSurplusOnUrl)
            THEN [e3 EXCEPT !.pvSurplusOnUrlBackup = e3.pvSurplusOnUrl,
                            !.pvSurplusOnUrl = Some(MockOnUrl)]
            ELSE e3
  IN IF Truthy(on.pvSurplusOffUrl)
     THEN [on EXCEPT !.pvSurplusOffUrlBackup = on.pvSurplusOffUrl,
                     !.pvSurplusOffUrl = Some(MockOffUrl)]
     ELSE on

\* lines 297-334: demo mode is switched off
LeaveDemo(previousSettings, payload) ==
  LET wb == [payload EXCEPT
               !.wallboxIp = IF Truthy(previousSettings.wallboxIpBackup)
                             THEN previousSettings.wallboxIpBackup
                             ELSE IF @ = Some(MockWallboxIp) THEN Some(DefaultWallboxIp)
                             ELSE @,
               !.wallboxIpBackup = None]
      e3 == IF Truthy(previousSettings.e3dcIpBackup)
            THEN [wb EXCEPT !.e3dcIp = previousSettings.e3dcIpBackup, !.e3dcIpBackup = None]
            ELSE IF wb.e3dcIp = Some(MockE3dcIp) THEN [wb EXCEPT !.e3dcIp = None]
            ELSE wb
      on == [e3 EXCEPT
               !.pvSurplusOnUrl = IF Truthy(previousSettings.pvSurplusOnUrlBackup)
                                  THEN previousSettings.pvSurplusOnUrlBackup ELSE @,
               !.pvSurplusOnUrlBackup = None]
  IN [on EXCEPT
        !.pvSurplusOffUrl = IF Truthy(previousSettings.pvSurplusOffUrlBackup)
                            THEN previousSettings.pvSurplusOffUrlBackup ELSE @,
        !.pvSurplusOffUrlBackup = None]

\* lines 336-375: demo mode stays on
keep(own, prev) == IF ~Truthy(own) /\ Truthy(prev) THEN prev ELSE own

\* a demo save that leaves the wallbox address of the payload in place
StayDemoWallbox_KeepsLive(previousSettings, payload) ==
  [payload EXCEPT !.wallboxIpBackup = keep(@, previousSettings.wallboxIpBackup)]

\* lines 338-342
StayDemoWallbox(previousSettings, payload) ==
  [payload EXCEPT
     !.wallboxIp = Some(MockWallboxIp),
     !.wallboxIpBackup = keep(@, previousSettings.wallboxIpBackup)]

\* a demo save that replaces a new E3DC address by the mock without a backup
StayDemoE3dc_NoBackup(previousSettings, wb) ==
  IF Truthy(wb.e3dcIp) /\ wb.e3dcIp # Some(MockE3dcIp)
  THEN [wb EXCEPT !.e3dcIp = Some(MockE3dcIp)]
  ELSE IF wb.e3dcIp = Some(MockE3dcIp)
  THEN [wb EXCEPT !.e3dcIpBackup = keep(@, previousSettings.e3dcIpBackup)]
  ELSE IF ~Truthy(wb.e3dcIp) /\ previousSettings.e3dcIp = Some(MockE3dcIp)
  THEN [wb EXCEPT !.e3dcIp = Some(MockE3dcIp),
                  !.e3dcIpBackup = keep(@, previousSettings.e3dcIpBackup)]
  ELSE IF ~Truthy(wb.e3dcIp) /\ Truthy(previousSettings.e3dcIp)
          /\ previousSettings.e3dcIp # Some(MockE3dcIp)
  THEN [wb EXCEPT !.e3dcIpBackup = None]
  ELSE wb

\* a demo save that answers a cleared E3DC address with the mock address
StayDemoE3dc_ForcesMock(previousSettings, wb) ==
  IF Truthy(wb.e3dcIp) /\ wb.e3dcIp # Some(MockE3dcIp)
  THEN [wb EXCEPT !.e3dcIpBackup = wb.e3dcIp, !.e3dcIp = Some(MockE3dcIp)]
  ELSE IF wb.e3dcIp = Some(MockE3dcIp)
  THEN [wb EXCEPT !.e3dcIpBackup = keep(@, previousSettings.e3dcIpBackup)]
  ELSE IF ~Truthy(wb.e3dcIp) /\ previousSettings.e3dcIp = Some(MockE3dcIp)
  THEN [wb EXCEPT !.e3dcIp = Some(MockE3dcIp),
                  !.e3dcIpBackup = keep(@, previousSettings.e3dcIpBackup)]
  ELSE IF ~Truthy(wb.e3dcIp) /\ Truthy(previousSettings.e3dcIp)
          /\ previousSettings.e3dcIp # Some(MockE3dcIp)
  THEN [wb EXCEPT !.e3dcIp = Some(MockE3dcIp), !.e3dcIpBackup = None]
  ELSE wb

\* lines 344-364
StayDemoE3dc(previousSettings, wb) ==
  IF Truthy(wb.e3dcIp) /\ wb.e3dcIp # Some(MockE3dcIp)
  THEN [wb EXCEPT !.e3dcIpBackup = wb.e3dcIp, !.e3dcIp = Some(MockE3dcIp)]
  ELSE IF wb.e3dcIp = Some(MockE3dcIp)
  THEN [wb EXCEPT !.e3dcIpBackup = keep(@, previousSettings.e3dcIpBackup)]
  ELSE IF ~Truthy(wb.e3dcIp) /\ previousSettings.e3dcIp = Some(MockE3dcIp)
  THEN [wb EXCEPT !.e3dcIp = Some(MockE3dcIp),
                  !.e3dcIpBackup = keep(@, previousSettings.e3dcIpBackup)]
  ELSE IF ~Truthy(wb.e3dcIp) /\ Truthy(previousSettings.e3dcIp)
          /\ previousSettings.e3dcIp # Some(MockE3dcIp)
  THEN [wb EXCEPT !.e3dcIpBackup = None]
  ELSE wb

\* a demo save that takes the FHEM URL backups from the payload alone
StayDemoUrls_DropsBackups(previousSettings, e3) ==
  [e3 EXCEPT
     !.pvSurplusOnUrl = Some(MockOnUrl),
     !.pvSurplusOffUrl = Some(MockOffUrl)]

\* lines 366-374
StayDemoUrls(previousSettings, e3) ==
  [e3 EXCEPT
     !.pvSurplusOnUrl = Some(MockOnUrl),
     !.pvSurplusOffUrl = Some(MockOffUrl),
     !.pvSurplusOnUrlBackup = keep(@, previousSettings.pvSurplusOnUrlBackup),
     !.pvSurplusOffUrlBackup = keep(@, previousSettings.pvSurplusOffUrlBackup)]

StayDemo(previousSettings, payload) ==
  StayDemoUrls(previousSettings,
    StayDemoE3dc(previousSettings, StayDemoWallbox(previousSettings, payload)))

\* a save that restores from the backups whenever the payload is not in demo mode
saveSettings_AlwaysRestores(previousSettings, payload) ==
  IF IsTrue(payload.demoMode) /\ ~IsTrue(previousSettings.demoMode) THEN EnterDemo(payload)
  ELSE IF ~IsTrue(payload.demoMode) THEN LeaveDemo(previousSettings, payload)
  ELSE StayDemo(previousSettings, payload)

\* lines 266-377: the object saveSettings(payload) stores over previousSettings
\* (payload is its parameter "settings")
saveSettings(previousSettings, payload) ==
  LET wasDemoMode == IsTrue(previousSettings.demoMode)
      isDemoMode == IsTrue(payload.demoMode)
  IN IF isDemoMode /\ ~wasDemoMode THEN EnterDemo(payload)
     ELSE IF ~isDemoMode /\ wasDemoMode THEN LeaveDemo(previousSettings, payload)
     ELSE IF isDemoMode /\ wasDemoMode THEN StayDemo(previousSettings, payload)
     ELSE payload

\* what a client can send in one field of a payload
FieldValues ==
  [wallboxIp |-> {Some(MockWallboxIp), Some("10.0.0.7"), Some("")},
   wallboxIpBackup |-> {None, Some("10.0.0.7")},
   e3dcIp |-> {None, Some(MockE3dcIp), Some("10.0.0.9")},
   e3dcIpBackup |-> {None, Some("10.0.0.9")},
   pvSurplusOnUrl |-> {None, Some("http://fhem/on")},
   pvSurplusOnUrlBackup |-> {None, Some("http://fhem/on")},
   pvSurplusOffUrl |-> {None, Some("http://fhem/off")},
   pvSurplusOffUrlBackup |-> {None, Some("http://fhem/off")}]

\* the payloads of a client that read the stored settings: a copy of them with
\* one field changed or with the demo flag set
Payloads(stored) ==
  UNION { { [stored EXCEPT ![f] = v] : v \in FieldValues[f] } : f \in DOMAIN FieldValues }
  \cup { [stored EXCEPT !.demoMode = Some(d)] : d \in BOOLEAN }

\* what any client can send: the stored settings with one field set to any
\* value and the demo flag left, set or cleared in the same payload
AnyFieldValues ==
  [FieldValues EXCEPT !.e3dcIp = @ \cup {Some("10.0.0.8")}]

AnyPayloads(stored) ==
  UNION { { [stored EXCEPT ![f] = v, !.demoMode = d] :
              v \in AnyFieldValues[f], d \in {stored.demoMode, Some(TRUE), Some(FALSE)} } :
          f \in DOMAIN AnyFieldValues }

\* a settings.json that holds demoMode true and a real e3dcIp (the stored
\* value that lines 358-364 expect); it is loaded as it is
DemoSettingsWithRealE3dc ==
  [DefaultSettings EXCEPT !.demoMode = Some(TRUE),
                          !.wallboxIp = Some(MockWallboxIp),
                          !.wallboxIpBackup = Some("10.0.0.7"),
                          !.e3dcIp = Some("10.0.0.9")]

NoToggle == [phase |-> "none", origin |-> None]

\* where the round trip "switch demo mode on, then off, nothing else changed" stands
\* once payload is saved over stored; likewise the round trip with the stored
\* value saved again in between, and which kind of save in demo mode was the last
Tracked(stored, payload) ==
  IF ~IsTrue(stored.demoMode) /\ payload = [stored EXCEPT !.demoMode = Some(TRUE)]
  THEN [phase |-> "entered", origin |-> Some(stored)]
  ELSE IF toggle.phase = "entered" /\ payload = [stored EXCEPT !.demoMode = Some(FALSE)]
  THEN [phase |-> "left", origin |-> toggle.origin]
  ELSE IF toggle.phase \in {"entered", "resaved"} /\ payload = stored
  THEN [phase |-> "resaved", origin |-> toggle.origin]
  ELSE IF toggle.phase = "resaved" /\ payload = [stored EXCEPT !.demoMode = Some(FALSE)]
  THEN [phase |-> "leftAfterResave", origin |-> toggle.origin]
  ELSE IF IsTrue(stored.demoMode) /\ IsTrue(payload.demoMode)
  THEN IF Truthy(stored.wallboxIpBackup) /\ payload = [stored EXCEPT !.wallboxIpBackup = None]
       THEN [phase |-> "backupOmitted", origin |-> None]
       ELSE IF Truthy(payload.e3dcIp) /\ payload.e3dcIp # Some(MockE3dcIp)
       THEN [phase |-> "newE3dcIp", origin |-> None]
       ELSE IF ~Truthy(payload.e3dcIp) /\ Truthy(stored.e3dcIp)
               /\ stored.e3dcIp # Some(MockE3dcIp)
       THEN [phase |-> "e3dcIpCleared", origin |-> None]
       ELSE NoToggle
  ELSE NoToggle

\* saveSettings(payload); written: writeFileSync succeeded (its failure is logged
\* and absorbed, lines 147-154)
SaveSettings(payload, written) ==
  /\ settings' = saveSettings(settings, payload)
  /\ IF written
     THEN /\ settingsFile' = Some(settings')
          /\ UNCHANGED writeFailures
     ELSE /\ writeFailures < MaxWriteFailures
          /\ writeFailures' = writeFailures + 1
          /\ UNCHANGED settingsFile
  /\ toggle' = Tracked(settings, payload)
  /\ UNCHANGED <<docVars, otherThanStore>>

(***************************************************************************)
(* MemStorage: the four JSON documents, their files and the constructor    *)
(***************************************************************************)
\* a JSON object is a function from the names of its fields; {...a, ...b}
Merge(a, b) ==
  [f \in DOMAIN a \cup DOMAIN b |-> IF f \in DOMAIN b THEN b[f] ELSE a[f]]

\* a file is None (absent) or Some(content); Corrupt is content that
\* readFileSync or JSON.parse throws on
Corrupt == [unparsable |-> TRUE]
Readable(file) == file # None /\ file[1] # Corrupt

DefaultControlState ==
  [pvSurplus |-> FALSE, nightCharging |-> FALSE, batteryLock |-> FALSE, gridCharging |-> FALSE]

EmptyTracking == <<>>

DefaultChargingContext ==
  [strategy |-> "off", isActive |-> FALSE, currentAmpere |-> 0, targetAmpere |-> 0,
   currentPhases |-> 3, adjustmentCount |-> 0, lastAdjustmentTimes |-> <<>>]

\* lines 118-145: the parsed object as it is; the defaults when the file is
\* absent or cannot be read
loadSettingsFromFile(file) == IF Readable(file) THEN file[1] ELSE DefaultSettings

\* line 143: the defaults are written whenever they are used
SettingsLoadWrites(file) == ~Readable(file)

\* lines 156-183
loadControlStateFromFile(file) ==
  IF Readable(file) THEN Merge(DefaultControlState, file[1]) ELSE DefaultControlState

\* lines 194-208
loadPlugTrackingFromFile(file) == IF Readable(file) THEN file[1] ELSE EmptyTracking

\* lines 219-250
loadChargingContextFromFile(file) ==
  IF Readable(file) THEN Merge(DefaultChargingContext, file[1]) ELSE DefaultChargingContext

\* a getter that returns the stored object as it is
getControlState_Stored == controlState

\* lines 261-263, 381-394, 410-413, 420-422
getSettings == settings
getControlState == Merge(DefaultControlState, controlState)
getPlugStatusTracking == plugStatusTracking
getChargingContext == chargingContext

\* what the four files can hold when the process starts: nothing, text that does
\* not parse, a document of an older schema that lacks fields, a full document
SettingsFiles ==
  { None, Some(Corrupt),
    Some([DefaultSettings EXCEPT !.wallboxIp = None, !.e3dcIp = Some("10.0.0.9")]),
    Some([DefaultSettings EXCEPT !.wallboxIp = Some("10.0.0.7")]) }
ControlStateFiles ==
  { None, Some(Corrupt), Some([pvSurplus |-> TRUE]),
    Some([pvSurplus |-> FALSE, nightCharging |-> TRUE, batteryLock |-> TRUE,
          gridCharging |-> FALSE]) }
PlugTrackingFiles ==
  { None, Some(Corrupt), Some([lastPlugStatus |-> 7]),
    Some([lastPlugStatus |-> 3, lastPlugChange |-> "2025-01-01T00:00:00Z"]) }
ChargingContextFiles ==
  { None, Some(Corrupt), Some([strategy |-> "surplus", isActive |-> TRUE]),
    Some([DefaultChargingContext EXCEPT !.strategy = "max", !.currentAmpere = 16,
                                        !.targetAmpere = 16]) }

\* the field initialisers of lines 75-96, before the constructor body runs
FieldInitialisers ==
  /\ settings = None
  /\ controlState = DefaultControlState
  /\ plugStatusTracking = EmptyTracking
  /\ chargingContext = DefaultChargingContext

\* lines 98-116: new MemStorage().  mkdirSync (line 102) is called outside any
\* try block when data/ is missing; written: writeFileSync of line 149 succeeded
\* (it is called only when the settings defaults are used)
Construct(written) ==
  /\ constructed = "no"
  /\ IF dataDir = "blocked"
     THEN /\ constructed' = "threw"
          /\ UNCHANGED <<dataDir, settings, settingsFile, writeFailures, controlState,
                         plugStatusTracking, chargingContext>>
     ELSE /\ constructed' = "yes"
          /\ dataDir' = "present"
          /\ settings' = loadSettingsFromFile(settingsFile)
          /\ IF SettingsLoadWrites(settingsFile)
             THEN IF written
                  THEN /\ settingsFile' = Some(settings')
                       /\ UNCHANGED writeFailures
                  ELSE /\ writeFailures < MaxWriteFailures
                       /\ writeFailures' = writeFailures + 1
                       /\ UNCHANGED settingsFile
             ELSE /\ written
                  /\ UNCHANGED <<settingsFile, writeFailures>>
          /\ controlState' = loadControlStateFromFile(controlStateFile)
          /\ plugStatusTracking' = loadPlugTrackingFromFile(plugTrackingFile)
          /\ chargingContext' = loadChargingContextFromFile(chargingContextFile)
  /\ UNCHANGED <<controlStateFile, plugTrackingFile, chargingContextFile>>
  /\ UNCHANGED <<toggle, callers, held, logs, otherThanStore>>

\* a write that reports success and leaves the file as it was
WriteOutcome_Lost(file, doc, written) == [file |-> file, failures |-> writeFailures]

\* writeFileSync(file, JSON.stringify(doc)) inside try/catch (lines 185-192,
\* 210-217, 252-259): the new content of the file and of the failure count
WriteOutcome(file, doc, written) ==
  IF written THEN [file |-> Some(doc), failures |-> writeFailures]
  ELSE [file |-> file, failures |-> writeFailures + 1]

CanWrite(written) == written \/ writeFailures < MaxWriteFailures

\* an update that stores only the fields it is given
UpdateControlState_OnlyUpdates(updates, written) ==
  /\ constructed = "yes"
  /\ CanWrite(written)
  /\ controlState' = updates
  /\ controlStateFile' = WriteOutcome(controlStateFile, controlState', written).file
  /\ writeFailures' = WriteOutcome(controlStateFile, controlState', written).failures
  /\ UNCHANGED <<settings, settingsFile, toggle, dataDir, constructed, plugStatusTracking,
                 plugTrackingFile, chargingContext, chargingContextFile, callers,
                 held, logs, otherThanStore>>

\* lines 396-399
SaveControlState(state, written) ==
  /\ constructed = "yes"
  /\ CanWrite(written)
  /\ controlState' = state
  /\ controlStateFile' = WriteOutcome(controlStateFile, state, written).file
  /\ writeFailures' = WriteOutcome(controlStateFile, state, written).failures
  /\ UNCHANGED <<settings, settingsFile, toggle, dataDir, constructed, plugStatusTracking,
                 plugTrackingFile, chargingContext, chargingContextFile, callers,
                 held, logs, otherThanStore>>

\* lines 401-408: one synchronous block
UpdateControlState(updates, written) ==
  /\ constructed = "yes"
  /\ CanWrite(written)
  /\ controlState' = Merge(controlState, updates)
  /\ controlStateFile' = WriteOutcome(controlStateFile, controlState', written).file
  /\ writeFailures' = WriteOutcome(controlStateFile, controlState', written).failures
  /\ UNCHANGED <<settings, settingsFile, toggle, dataDir, constructed, plugStatusTracking,
                 plugTrackingFile, chargingContext, chargingContextFile, callers,
                 held, logs, otherThanStore>>

\* lines 415-418
SavePlugStatusTracking(tracking, written) ==
  /\ constructed = "yes"
  /\ CanWrite(written)
  /\ plugStatusTracking' = tracking
  /\ plugTrackingFile' = WriteOutcome(plugTrackingFile, tracking, written).file
  /\ writeFailures' = WriteOutcome(plugTrackingFile, tracking, written).failures
  /\ UNCHANGED <<settings, settingsFile, toggle, dataDir, constructed, controlState,
                 controlStateFile, chargingContext, chargingContextFile, callers,
                 held, logs, otherThanStore>>

\* lines 424-427
SaveChargingContext(context, written) ==
  /\ constructed = "yes"
  /\ CanWrite(written)
  /\ chargingContext' = context
  /\ chargingContextFile' = WriteOutcome(chargingContextFile, context, written).file
  /\ writeFailures' = WriteOutcome(chargingContextFile, context, written).failures
  /\ UNCHANGED <<settings, settingsFile, toggle, dataDir, constructed, controlState,
                 controlStateFile, plugStatusTracking, plugTrackingFile, callers,
                 held, logs, otherThanStore>>

\* lines 429-435
UpdateChargingContext(updates, written) ==
  /\ constructed = "yes"
  /\ CanWrite(written)
  /\ chargingContext' = Merge(chargingContext, updates)
  /\ chargingContextFile' = WriteOutcome(chargingContextFile, chargingContext', written).file
  /\ writeFailures' = WriteOutcome(chargingContextFile, chargingContext', written).failures
  /\ UNCHANGED <<settings, settingsFile, toggle, dataDir, constructed, controlState,
                 controlStateFile, plugStatusTracking, plugTrackingFile, callers,
                 held, logs, otherThanStore>>

\* what callers pass: full documents, a document that lacks fields (the body of
\* a request is not checked by the store), and partial updates
ControlFields == DOMAIN DefaultControlState
ControlStates ==
  { DefaultControlState,
    [pvSurplus |-> TRUE, nightCharging |-> TRUE, batteryLock |-> TRUE, gridCharging |-> TRUE],
    [batteryLock |-> TRUE] }
ControlUpdates ==
  { [g \in {f} |-> b] : f \in ControlFields, b \in BOOLEAN }
  \cup { [nightCharging |-> TRUE, gridCharging |-> TRUE] }
Trackings == { [lastPlugStatus |-> 7], [lastPlugStatus |-> 5, lastPlugChange |-> "2025-01-02T00:00:00Z"] }
ChargingContexts ==
  { DefaultChargingContext,
    [DefaultChargingContext EXCEPT !.strategy = "surplus", !.isActive = TRUE,
                                   !.currentAmpere = 6, !.targetAmpere = 8] }
ChargingUpdates ==
  { [isActive |-> FALSE], [currentAmpere |-> 10, adjustmentCount |-> 1] }

\* the variables of the documents other than the plug tracking and held
otherThanTracking ==
  <<settings, settingsFile, toggle, dataDir, constructed, controlState, controlStateFile,
    chargingContext, chargingContextFile, callers, logs, otherThanStore>>

\* what a caller assigns to fields of a tracking object it holds
TrackingUpdates == { [lastPlugStatus |-> 3], [lastPlugChange |-> "2025-01-03T00:00:00Z"] }

\* lines 410-413: the caller receives a new object with the fields of the stored one
GetPlugStatusTracking ==
  /\ constructed = "yes"
  /\ Len(held) < MaxHeld
  /\ held' = Append(held, [doc |-> getPlugStatusTracking, stored |-> FALSE])
  /\ UNCHANGED <<plugStatusTracking, plugTrackingFile, writeFailures, otherThanTracking>>

\* lines 415-418 with an object the caller holds: line 416 stores the reference,
\* so from now on held[i] is the object this.plugStatusTracking names
CallerSaves(i, written) ==
  /\ constructed = "yes"
  /\ CanWrite(written)
  /\ plugStatusTracking' = held[i].doc
  /\ held' = [j \in DOMAIN held |-> [held[j] EXCEPT !.stored = (j = i)]]
  /\ plugTrackingFile' = WriteOutcome(plugTrackingFile, held[i].doc, written).file
  /\ writeFailures' = WriteOutcome(plugTrackingFile, held[i].doc, written).failures
  /\ UNCHANGED otherThanTracking

\* a caller assigns to fields of an object it holds; no code of the store runs.
\* The object the store references (line 416) is changed for the store as well
CallerMutates(i, updates) ==
  /\ constructed = "yes"
  /\ held' = [held EXCEPT ![i].doc = Merge(@, updates)]
  /\ held' # held
  /\ plugStatusTracking' =
       IF held[i].stored THEN Merge(plugStatusTracking, updates) ELSE plugStatusTracking
  /\ UNCHANGED <<plugTrackingFile, writeFailures, otherThanTracking>>

\* a call that merges into the state the store was constructed with, not into
\* the current one
CallerUpdates_StaleRead(c, written) ==
  /\ constructed = "yes"
  /\ ~callers[c].done
  /\ CanWrite(written)
  /\ callers' = [callers EXCEPT ![c].done = TRUE]
  /\ controlState' = Merge(DefaultControlState, callers[c].updates)
  /\ controlStateFile' = WriteOutcome(controlStateFile, controlState', written).file
  /\ writeFailures' = WriteOutcome(controlStateFile, controlState', written).failures
  /\ UNCHANGED <<settings, settingsFile, toggle, dataDir, constructed, plugStatusTracking,
                 plugTrackingFile, chargingContext, chargingContextFile, held, logs,
                 otherThanStore>>

\* a caller's single call of updateControlState (lines 401-408); whatever the
\* caller awaited before, the call itself runs to its end before any other code
CallerUpdates(c, written) ==
  /\ constructed = "yes"
  /\ ~callers[c].done
  /\ CanWrite(written)
  /\ callers' = [callers EXCEPT ![c].done = TRUE]
  /\ controlState' = Merge(controlState, callers[c].updates)
  /\ controlStateFile' = WriteOutcome(controlStateFile, controlState', written).file
  /\ writeFailures' = WriteOutcome(controlStateFile, controlState', written).failures
  /\ UNCHANGED <<settings, settingsFile, toggle, dataDir, constructed, plugStatusTracking,
                 plugTrackingFile, chargingContext, chargingContextFile, held, logs,
                 otherThanStore>>

\* a caller assigns demoMode on the object getSettings() returned. Line 262
\* returns this.settings itself, so the stored object changes; no code of the
\* store runs and nothing is written
AssignReturned(demoMode) ==
  /\ constructed = "yes"
  /\ settings' = [settings EXCEPT !.demoMode = demoMode]
  /\ settings' # settings
  /\ toggle' = NoToggle
  /\ UNCHANGED <<settingsFile, writeFailures, docVars, otherThanStore>>

\* saveSettings called with the object getSettings() returned: previousSettings
\* (line 266) and the argument are one object.  Lines 271-375 read no field of
\* previousSettings after writing that field of the argument, so the outcome is
\* that of a save of an equal copy
SaveReturned == SaveSettings(settings, TRUE)

\* the process is restarted: the constructor (lines 98-116) runs again over the
\* files as they are, every write succeeding; what was only in memory is gone
Restart ==
  /\ constructed = "yes"
  /\ settings' = loadSettingsFromFile(settingsFile)
  /\ settingsFile' = IF SettingsLoadWrites(settingsFile) THEN Some(settings') ELSE settingsFile
  /\ controlState' = loadControlStateFromFile(controlStateFile)
  /\ plugStatusTracking' = loadPlugTrackingFromFile(plugTrackingFile)
  /\ chargingContext' = loadChargingContextFromFile(chargingContextFile)
  /\ toggle' = NoToggle
  /\ held' = <<>>
  /\ logs' = <<>>
  /\ UNCHANGED <<writeFailures, dataDir, constructed, controlStateFile, plugTrackingFile,
                 chargingContextFile, callers, otherThanStore>>

(***************************************************************************)
(* MemStorage: the log entries                                             *)
(***************************************************************************)
maxLogs == 1000

\* an entry is modelled by its id, a number that grows with every addLog; the
\* fields the caller passes are stored with it and not looked at
NextLogId == IF logs = <<>> THEN 1 ELSE logs[Len(logs)] + 1

\* Array.prototype.slice(-n)
SliceLast(q, n) == IF Len(q) > n THEN SubSeq(q, Len(q) - n + 1, Len(q)) ELSE q

\* an addLog that never drops an entry
AddLog_NoCap ==
  /\ constructed = "yes"
  /\ NextLogId <= MaxLogId
  /\ logs' = Append(logs, NextLogId)
  /\ UNCHANGED <<settings, settingsFile, writeFailures, toggle, dataDir, constructed,
                 controlState, controlStateFile, plugStatusTracking, plugTrackingFile,
                 chargingContext, chargingContextFile, callers, held, otherThanStore>>

\* lines 441-453
AddLog ==
  /\ constructed = "yes"
  /\ NextLogId <= MaxLogId
  /\ LET pushed == Append(logs, NextLogId)
     IN logs' = IF Len(pushed) > maxLogs THEN SliceLast(pushed, maxLogs) ELSE pushed
  /\ UNCHANGED <<settings, settingsFile, writeFailures, toggle, dataDir, constructed,
                 controlState, controlStateFile, plugStatusTracking, plugTrackingFile,
                 chargingContext, chargingContextFile, callers, held, otherThanStore>>

\* lines 455-457
ClearLogs ==
  /\ constructed = "yes"
  /\ logs # <<>>
  /\ logs' = <<>>
  /\ UNCHANGED <<settings, settingsFile, writeFailures, toggle, dataDir, constructed,
                 controlState, controlStateFile, plugStatusTracking, plugTrackingFile,
                 chargingContext, chargingContextFile, callers, held, otherThanStore>>

\* lines 437-439
getLogs == logs

(***************************************************************************)
(* Initial states and specifications                                       *)
(***************************************************************************)
ExecInit ==
  /\ config = None
  /\ lastCommandTime = 0
  /\ now = StartTime
  /\ calls = <<>>
  /\ thrown = ""

LogIdle ==
  /\ isDevelopment = TRUE
  /\ frame = None
  /\ captured = None
  /\ console = <<>>
  /\ rejection = ""

SanIdle ==
  /\ sanitizeArgs = None
  /\ sanitized = None

\* the documents of a store that has not been constructed
DocsIdle ==
  /\ dataDir = "present"
  /\ constructed = "no"
  /\ controlState = DefaultControlState
  /\ controlStateFile = None
  /\ plugStatusTracking = EmptyTracking
  /\ plugTrackingFile = None
  /\ chargingContext = DefaultChargingContext
  /\ chargingContextFile = None
  /\ callers = <<>>
  /\ held = <<>>
  /\ logs = <<>>

StoreIdle ==
  /\ settings = None
  /\ settingsFile = None
  /\ writeFailures = 0
  /\ toggle = None
  /\ DocsIdle

\* the executor after construction
Init == ExecInit /\ LogIdle /\ SanIdle /\ StoreIdle

Next ==
  \/ \E cfg \in Configs : Configure(cfg)
  \/ Disconnect
  \/ LockDischarge
  \/ UnlockDischarge
  \/ EnableGridCharge
  \/ DisableGridCharge
  \/ \E c \in DOMAIN calls : TimerFired(c)
  \/ \E c \in DOMAIN calls : ExecSucceeded(c)
  \/ \E c \in DOMAIN calls : ExecFailed(c)
  \/ Tick

Spec == Init /\ [][Next]_vars

\* the same client with a clock that keeps running while a timer is pending;
\* the event loop runs a timer that is due, and every spawned process terminates
NextLive ==
  \/ \E cfg \in Configs : Configure(cfg)
  \/ Disconnect
  \/ LockDischarge
  \/ UnlockDischarge
  \/ EnableGridCharge
  \/ DisableGridCharge
  \/ \E c \in DOMAIN calls : TimerFired(c)
  \/ \E c \in DOMAIN calls : ExecSucceeded(c)
  \/ \E c \in DOMAIN calls : ExecFailed(c)
  \/ Pass

SpecLive ==
  /\ Init
  /\ [][NextLive]_vars
  /\ WF_vars(Pass)
  /\ \A c \in 1..MaxCalls : WF_vars(TimerFired(c))
  /\ \A c \in 1..MaxCalls : WF_vars(ExecSucceeded(c) \/ ExecFailed(c))

\* one call at line 94, in either build
InitLog ==
  /\ ExecInit /\ SanIdle /\ StoreIdle
  /\ isDevelopment \in BOOLEAN
  /\ frame \in Frames
  /\ captured = None
  /\ console = <<>>
  /\ rejection = ""

NextLog ==
  \/ \E stdout \in Outputs, stderr \in ErrOutputs : ProcessSucceeded(stdout, stderr)
  \/ \E stderr \in ErrOutputs : ProcessFailed(stderr)

SpecLog == InitLog /\ [][NextLog]_vars

InitSan == ExecInit /\ LogIdle /\ SanIdle /\ StoreIdle

NextSan == \E in \in SanInputs : Sanitize(in)

SpecSan == InitSan /\ [][NextSan]_vars

\* MemStorage constructed with no settings file on disk: the defaults are stored
\* and written (or the write failed)
InitSettings ==
  /\ ExecInit /\ LogIdle /\ SanIdle
  /\ settings = DefaultSettings
  /\ \/ settingsFile = Some(DefaultSettings) /\ writeFailures = 0
     \/ settingsFile = None /\ writeFailures = 1
  /\ toggle = NoToggle
  /\ dataDir = "present"
  /\ constructed = "yes"
  /\ controlState = DefaultControlState
  /\ controlStateFile = None
  /\ plugStatusTracking = EmptyTracking
  /\ plugTrackingFile = None
  /\ chargingContext = DefaultChargingContext
  /\ chargingContextFile = None
  /\ callers = <<>>
  /\ held = <<>>
  /\ logs = <<>>

NextSettings ==
  \E payload \in Payloads(settings), written \in BOOLEAN : SaveSettings(payload, written)

SpecSettings == InitSettings /\ [][NextSettings]_vars

\* the process starts: the object holds its field initialisers, data/ and the
\* four files are in any state (no file without the directory)
InitBoot ==
  /\ ExecInit /\ LogIdle /\ SanIdle
  /\ FieldInitialisers
  /\ constructed = "no"
  /\ writeFailures = 0
  /\ toggle = NoToggle
  /\ callers = <<>>
  /\ held = <<>>
  /\ logs = <<>>
  /\ dataDir \in {"present", "creatable", "blocked"}
  /\ settingsFile \in SettingsFiles
  /\ controlStateFile \in ControlStateFiles
  /\ plugTrackingFile \in PlugTrackingFiles
  /\ chargingContextFile \in ChargingContextFiles
  /\ dataDir # "present"
       => /\ settingsFile = None /\ controlStateFile = None
          /\ plugTrackingFile = None /\ chargingContextFile = None

NextBoot == \E written \in BOOLEAN : Construct(written)

SpecBoot == InitBoot /\ [][NextBoot]_vars

\* the store after its constructor has run on any of the files
Hydrated ==
  /\ dataDir = "present"
  /\ constructed = "yes"
  /\ settings = DefaultSettings
  /\ settingsFile = Some(DefaultSettings)
  /\ writeFailures = 0
  /\ toggle = NoToggle
  /\ controlStateFile \in ControlStateFiles
  /\ controlState = loadControlStateFromFile(controlStateFile)
  /\ plugTrackingFile \in {None, Some([lastPlugStatus |-> 7])}
  /\ plugStatusTracking = loadPlugTrackingFromFile(plugTrackingFile)
  /\ chargingContextFile \in {None, Some([strategy |-> "surplus", isActive |-> TRUE])}
  /\ chargingContext = loadChargingContextFromFile(chargingContextFile)

InitDocs ==
  /\ ExecInit /\ LogIdle /\ SanIdle /\ Hydrated
  /\ callers = <<>>
  /\ held = <<>>
  /\ logs = <<>>

NextDocs ==
  \/ \E state \in ControlStates, written \in BOOLEAN : SaveControlState(state, written)
  \/ \E updates \in ControlUpdates, written \in BOOLEAN : UpdateControlState(updates, written)
  \/ \E tracking \in Trackings, written \in BOOLEAN : SavePlugStatusTracking(tracking, written)
  \/ \E context \in ChargingContexts, written \in BOOLEAN : SaveChargingContext(context, written)
  \/ \E updates \in ChargingUpdates, written \in BOOLEAN : UpdateChargingContext(updates, written)

SpecDocs == InitDocs /\ [][NextDocs]_vars

\* two callers about to update disjoint fields of any hydrated control state
CallerPairs ==
  { <<[updates |-> a, done |-> FALSE], [updates |-> b, done |-> FALSE]>> :
      <<a, b>> \in { x \in ControlUpdates \X ControlUpdates :
                       DOMAIN x[1] \cap DOMAIN x[2] = {} } }

InitCallers ==
  /\ ExecInit /\ LogIdle /\ SanIdle /\ Hydrated
  /\ callers \in CallerPairs
  /\ held = <<>>
  /\ logs = <<>>

NextCallers == \E c \in DOMAIN callers, written \in BOOLEAN : CallerUpdates(c, written)

SpecCallers == InitCallers /\ [][NextCallers]_vars

\* callers that get, change and save tracking objects
InitAlias ==
  /\ ExecInit /\ LogIdle /\ SanIdle /\ Hydrated
  /\ callers = <<>>
  /\ held = <<>>
  /\ logs = <<>>

NextAlias ==
  \/ GetPlugStatusTracking
  \/ \E i \in DOMAIN held, written \in BOOLEAN : CallerSaves(i, written)
  \/ \E i \in DOMAIN held, updates \in TrackingUpdates : CallerMutates(i, updates)

SpecAlias == InitAlias /\ [][NextAlias]_vars

\* the store constructed on an empty data directory, no entry logged yet
InitRing ==
  /\ ExecInit /\ LogIdle /\ SanIdle /\ Hydrated
  /\ controlStateFile = None
  /\ plugTrackingFile = None
  /\ chargingContextFile = None
  /\ callers = <<>>
  /\ held = <<>>
  /\ logs = <<>>

NextRing == AddLog \/ ClearLogs

SpecRing == InitRing /\ [][NextRing]_vars

\* MemStorage constructed with no settings file, or with one that holds demo
\* settings; then saves of any payload, the file being writable (a write that
\* fails is part of SpecSettings)
InitSave ==
  /\ ExecInit /\ LogIdle /\ SanIdle
  /\ settings \in {DefaultSettings, DemoSettingsWithRealE3dc}
  /\ settingsFile = Some(settings)
  /\ writeFailures = 0
  /\ toggle = NoToggle
  /\ dataDir = "present"
  /\ constructed = "yes"
  /\ controlState = DefaultControlState
  /\ controlStateFile = None
  /\ plugStatusTracking = EmptyTracking
  /\ plugTrackingFile = None
  /\ chargingContext = DefaultChargingContext
  /\ chargingContextFile = None
  /\ callers = <<>>
  /\ held = <<>>
  /\ logs = <<>>

NextSave ==
  \E payload \in AnyPayloads(settings) : SaveSettings(payload, TRUE)

SpecSave == InitSave /\ [][NextSave]_vars

\* a store constructed with the defaults; callers save copies of the stored
\* settings, or assign to the object getSettings() returned and save that object
InitReturned == InitSave /\ settings = DefaultSettings

\* the copies a caller saves: the stored settings with demoMode set and
\* wallboxIp or e3dcIp kept or replaced
CopiedPayloads(stored) ==
  UNION { { [stored EXCEPT ![f] = v, !.demoMode = d] :
              v \in {stored[f], Some("10.0.0.7")}, d \in {Some(TRUE), Some(FALSE)} } :
          f \in {"wallboxIp", "e3dcIp"} } \ {stored}

NextReturned ==
  \/ SaveReturned
  \/ \E demoMode \in {Some(TRUE), Some(FALSE)} : AssignReturned(demoMode)
  \/ \E payload \in CopiedPayloads(settings) : SaveSettings(payload, TRUE)

SpecReturned == InitReturned /\ [][NextReturned]_vars

\* a hydrated store, mutations whose writes all succeed, and restarts
NextRestart ==
  \/ \E demoMode \in {Some(TRUE), Some(FALSE)} :
       SaveSettings([settings EXCEPT !.demoMode = demoMode], TRUE)
  \/ \E state \in ControlStates : SaveControlState(state, TRUE)
  \/ \E updates \in ControlUpdates : UpdateControlState(updates, TRUE)
  \/ \E tracking \in Trackings : SavePlugStatusTracking(tracking, TRUE)
  \/ \E context \in ChargingContexts : SaveChargingContext(context, TRUE)
  \/ \E updates \in ChargingUpdates : UpdateChargingContext(updates, TRUE)
  \/ Restart

SpecRestart == InitDocs /\ [][NextRestart]_vars

(***************************************************************************)
(* Properties of the command executor (specification Spec)                 *)
(***************************************************************************)
\* a call that started an external process which then exited successfully
Succeeded(c) == calls[c].pc = "resolved" /\ calls[c].startAt # NotStarted


\* this step is a call of operation op
IsCallOf(op) == Len(calls') = Len(calls) + 1 /\ calls'[Len(calls')].op = op

\* the call this step has added
Added == calls'[Len(calls')]

\* C2: for any interleaving of the four command calls, the start times of any
\* two successful external command executions are at least RATE_LIMIT_MS apart.
C2_SuccessfulStartsApart ==
  \A a \in DOMAIN calls : \A b \in DOMAIN calls :
    (a # b /\ Succeeded(a) /\ Succeeded(b) /\ calls[a].startAt <= calls[b].startAt)
      => calls[b].startAt - calls[a].startAt >= RATE_LIMIT_MS

\* C3: at most one call at a time is between the evaluation of the elapsed
\* time and the update of the timestamp (waiting for the throttle or running
\* its process), so no two external commands are in flight together.
C3_OneCallInSection ==
  /\ Cardinality(Running \cup Waiting) <= 1
  /\ Cardinality(Running) <= 1

\* C4: a command call invoked once an earlier call has completed successfully
\* starts its external process no earlier than RATE_LIMIT_MS after the earlier
\* call's process was started (lockDischarge twice is one such pair).
C4_SequentialRateLimit ==
  \A b \in DOMAIN calls : \A a \in calls[b].after :
    calls[b].startAt # NotStarted
      => calls[b].startAt >= calls[a].startAt + RATE_LIMIT_MS

C4_Witness ==
  \E b \in DOMAIN calls : \E a \in calls[b].after :
    /\ calls[a].op = "lockDischarge" /\ calls[b].op = "lockDischarge"
    /\ Succeeded(b)
    /\ calls[b].startAt >= calls[a].startAt + RATE_LIMIT_MS
    /\ calls[b].startAt < calls[a].startAt + RATE_LIMIT_MS + TickMs

\* C5: the completion of every command attempt, successful or failed, sets
\* the last-command time to the current time, and no other step changes it.
C5_TimestampAfterEveryAttempt ==
  [][/\ \A c \in DOMAIN calls :
          (c \in Running /\ calls'[c].pc \in {"resolved", "rejected"})
            => lastCommandTime' = now
     /\ (\A c \in DOMAIN calls : ~(c \in Running /\ calls'[c].pc \in {"resolved", "rejected"}))
          => lastCommandTime' = lastCommandTime]_vars

\* C6: with a configuration stored, a call of an operation whose selected
\* command is absent, empty or whitespace-only completes successfully, starts
\* no process, sets no timer and leaves the last-command time unchanged.
C6_EmptyCommandNoOp ==
  [][\A op \in Ops :
       (/\ config # None
        /\ IsCallOf(op)
        /\ LET cmd == CommandFor(config[1], op)
           IN cmd = None \/ \A i \in DOMAIN cmd[1] : IsWhitespace(cmd[1][i]))
       => /\ Added.pc = "resolved"
          /\ Added.error = ""
          /\ Added.startAt = NotStarted
          /\ Added.wakeAt = NotStarted
          /\ Running' = Running
          /\ lastCommandTime' = lastCommandTime]_vars

\* a whitespace-only command was called while the throttle would have applied
C6_Witness ==
  /\ config # None
  /\ config[1].gridChargeDisableCommand = Some(<<" ", " ">>)
  /\ Len(calls) = 2
  /\ Succeeded(1)
  /\ calls[2].op = "disableGridCharge" /\ calls[2].pc = "resolved"
  /\ calls[2].startAt = NotStarted
  /\ now - lastCommandTime < RATE_LIMIT_MS

\* C7: configure(cfg) with cfg.enabled false fails and leaves the stored
\* configuration as it was; with cfg.enabled true it stores cfg, and
\* isConfigured() is then true.
C7_Configure ==
  [][\A cfg \in Configs :
       Configure(cfg) =>
         IF cfg.enabled
         THEN thrown' = "" /\ config' = Some(cfg) /\ isConfigured'
         ELSE thrown' = "E3DC not enabled" /\ config' = config]_vars

\* a configure of a disabled configuration has failed over a stored one
C7_Witness ==
  /\ thrown = "E3DC not enabled"
  /\ config # None
  /\ isConfigured

\* C8: while no configuration is stored, every call of the four operations
\* fails with the configuration error, starts no process and leaves the
\* last-command time unchanged.
C8_UnconfiguredCallsFail ==
  [][\A op \in Ops :
       (config = None /\ IsCallOf(op))
       => /\ Added.pc = "rejected"
          /\ Added.error = "E3DC not configured"
          /\ Added.startAt = NotStarted
          /\ Added.wakeAt = NotStarted
          /\ Running' = Running
          /\ lastCommandTime' = lastCommandTime]_vars

\* a call was made after disconnect(), with an earlier command executed
C8_Witness ==
  /\ config = None
  /\ Len(calls) = 2
  /\ Succeeded(1)
  /\ calls[2].pc = "rejected"
  /\ calls[2].error = "E3DC not configured"
  /\ calls[2].startAt = NotStarted
  /\ lastCommandTime > 0

(***************************************************************************)
(* Properties of what an execution writes (specification SpecLog)          *)
(***************************************************************************)
\* everything execAsync can produce for a command
Captures(command) ==
  { [ok |-> TRUE, stdout |-> o, stderr |-> e, message |-> <<>>] :
      o \in Outputs, e \in ErrOutputs }
  \cup { [ok |-> FALSE, stdout |-> <<>>, stderr |-> e,
          message |-> ExecErrorMessage(command, e)] : e \in ErrOutputs }

\* C9: a failed command fails its call with an error that names only the
\* logical command; in a production build no console line carries captured
\* or command text, and a run with another command string and other captured
\* output of the same lengths writes the same lines and the same error.
C9_NoContentInProduction ==
  captured # None =>
    /\ (~captured[1].ok => rejection = "Failed to execute " \o frame.name)
    /\ (~isDevelopment =>
          /\ \A i \in DOMAIN console : console[i].text = <<>>
          /\ \A other \in Frames : \A alt \in Captures(other.command) :
               (/\ other.name = frame.name
                /\ alt.ok = captured[1].ok
                /\ Len(alt.stdout) = Len(captured[1].stdout)
                /\ Len(alt.stderr) = Len(captured[1].stderr))
               => /\ Written(isDevelopment, other, alt) = console
                  /\ Rejected(other, alt) = rejection)

\* a production run has failed with text on stderr
C9_Witness ==
  /\ ~isDevelopment
  /\ captured # None
  /\ ~captured[1].ok
  /\ captured[1].stderr # <<>>
  /\ rejection # ""
  /\ console # <<>>

(***************************************************************************)
(* Properties of sanitizeOutput (specification SpecSan)                    *)
(***************************************************************************)
\* C10: the sanitized form of a text that holds a credential token (a listed
\* flag or name, "=" or ":", and a value) does not contain the value, for
\* every command string and every list of extra secrets.
C10_CredentialRemoved ==
  (sanitized # None /\ sanitizeArgs[1].credential # None)
    => ~Contains(sanitized[1], sanitizeArgs[1].credential[1])

\* the non-blank strings of a list of secrets
NonBlank(secrets) == { secrets[k] : k \in {j \in DOMAIN secrets : ~IsBlank(secrets[j])} }

\* the text holds neither the command nor a non-blank secret
FreeOf(text, command, secrets) ==
  /\ ~Contains(text, command)
  /\ \A x \in NonBlank(secrets) : ~Contains(text, x)

\* a string that shares no text with a redaction marker: it is no part of
\* "[COMMAND REDACTED]" and holds none of "[", "]", "*"
MarkerFree(x) ==
  /\ ~Contains(COMMAND_REDACTED, x)
  /\ \A i \in DOMAIN x : x[i] \notin {"[", "]", "*"}

Restored(origin, current) ==
  /\ current.wallboxIp = origin.wallboxIp
  /\ current.e3dcIp = origin.e3dcIp
  /\ current.pvSurplusOnUrl = origin.pvSurplusOnUrl
  /\ current.pvSurplusOffUrl = origin.pvSurplusOffUrl
  /\ current.wallboxIpBackup = None
  /\ current.e3dcIpBackup = None
  /\ current.pvSurplusOnUrlBackup = None
  /\ current.pvSurplusOffUrlBackup = None

\* absent, or present with a non-empty value
AbsentOrReal(x) == x = None \/ x[1] # ""

\* stored non-demo settings whose e3dcIp and FHEM URLs are each real or absent
NonDemoOrigin(s) ==
  /\ ~IsTrue(s.demoMode)
  /\ AbsentOrReal(s.e3dcIp)
  /\ AbsentOrReal(s.pvSurplusOnUrl)
  /\ AbsentOrReal(s.pvSurplusOffUrl)

C12_ControlStateComplete ==
  /\ DOMAIN getControlState = ControlFields
  /\ \A f \in ControlFields :
       /\ getControlState[f] \in BOOLEAN
       /\ getControlState[f] = (IF f \in DOMAIN controlState THEN controlState[f] ELSE FALSE)
  /\ (writeFailures = 0 /\ Readable(controlStateFile))
       => \A f \in DOMAIN controlStateFile[1] : getControlState[f] = controlStateFile[1][f]

\* a document without pvSurplus was saved and pvSurplus then updated
C12_Witness ==
  /\ DOMAIN controlState = {"batteryLock", "gridCharging"}
  /\ controlState.batteryLock /\ controlState.gridCharging
  /\ controlStateFile = Some(controlState)
  /\ getControlState =
       [pvSurplus |-> FALSE, nightCharging |-> FALSE, batteryLock |-> TRUE, gridCharging |-> TRUE]

\* an update sets the fields it names and leaves the others as they were
MergedInto(before, updates, after) ==
  /\ DOMAIN after = DOMAIN before \cup DOMAIN updates
  /\ \A f \in DOMAIN updates : after[f] = updates[f]
  /\ \A f \in DOMAIN before \ DOMAIN updates : after[f] = before[f]

\* C13: updateControlState and updateChargingContext set exactly the fields
\* they are given and leave every other field unchanged; saveControlState and
\* saveChargingContext replace the whole document; either way the resulting
\* document is the one written to the file (a failed write leaves the file).
C13_UpdateMergesSaveReplaces ==
  [][/\ \A updates \in ControlUpdates, written \in BOOLEAN :
          UpdateControlState(updates, written)
            => /\ MergedInto(controlState, updates, controlState')
               /\ controlStateFile' = IF written THEN Some(controlState') ELSE controlStateFile
     /\ \A updates \in ChargingUpdates, written \in BOOLEAN :
          UpdateChargingContext(updates, written)
            => /\ MergedInto(chargingContext, updates, chargingContext')
               /\ chargingContextFile' =
                    IF written THEN Some(chargingContext') ELSE chargingContextFile
     /\ \A state \in ControlStates, written \in BOOLEAN :
          SaveControlState(state, written)
            => /\ controlState' = state
               /\ controlStateFile' = IF written THEN Some(state) ELSE controlStateFile
     /\ \A context \in ChargingContexts, written \in BOOLEAN :
          SaveChargingContext(context, written)
            => /\ chargingContext' = context
               /\ chargingContextFile' = IF written THEN Some(context) ELSE chargingContextFile
    ]_vars

\* both documents were loaded from files of an older schema and then updated
C13_Witness ==
  /\ controlState =
       [pvSurplus |-> TRUE, nightCharging |-> FALSE, batteryLock |-> FALSE, gridCharging |-> TRUE]
  /\ controlStateFile = Some(controlState)
  /\ chargingContext =
       [DefaultChargingContext EXCEPT !.strategy = "surplus", !.isActive = TRUE,
                                      !.currentAmpere = 10, !.adjustmentCount = 1]
  /\ chargingContextFile = Some(chargingContext)

\* the call of caller c is reflected in the stored control state
Reflected(c) == \A f \in DOMAIN callers[c].updates : controlState[f] = callers[c].updates[f]

BothDone == callers # <<>> /\ callers[1].done /\ callers[2].done

\* C14 as stated: two callers of updateControlState with disjoint updates can
\* interleave so that the second write drops the first update: once one call
\* has completed, the other can complete into a state that reflects only one.
C14_LostUpdatePossible ==
  \A c \in DOMAIN callers : \A d \in DOMAIN callers :
    (c # d /\ callers[c].done /\ ~callers[d].done)
      => ENABLED (/\ \E written \in BOOLEAN : CallerUpdates(d, written)
                  /\ \E f \in DOMAIN callers[c].updates :
                       controlState'[f] # callers[c].updates[f])

\* C14, amended: a call of updateControlState reads, merges and writes without
\* any other code running in between, so once two calls with disjoint updates
\* have both completed, in either order, both updates are reflected.
C14_BothUpdatesReflected ==
  BothDone => Reflected(1) /\ Reflected(2)

\* both calls have completed over a state loaded from an older file
C14_Witness ==
  /\ BothDone
  /\ callers[1].updates = [batteryLock |-> TRUE]
  /\ callers[2].updates = [nightCharging |-> TRUE, gridCharging |-> TRUE]
  /\ controlState =
       [pvSurplus |-> TRUE, nightCharging |-> TRUE, batteryLock |-> TRUE, gridCharging |-> TRUE]
  /\ controlStateFile = Some(controlState)

Hydration == constructed = "no" /\ constructed' = "yes"

\* no write of this step failed
NoWriteFailed == writeFailures' = writeFailures

\* C16: for each of the four stores, if its file is absent when the process
\* starts, the default becomes the in-memory value and is written to the file
\* at once (unless that write fails).
C16_AbsentFileBootstrapped ==
  [][Hydration =>
       /\ settingsFile = None
            => /\ settings' = DefaultSettings
               /\ NoWriteFailed => settingsFile' = Some(DefaultSettings)
       /\ controlStateFile = None
            => /\ controlState' = DefaultControlState
               /\ NoWriteFailed => controlStateFile' = Some(DefaultControlState)
       /\ plugTrackingFile = None
            => /\ plugStatusTracking' = EmptyTracking
               /\ NoWriteFailed => plugTrackingFile' = Some(EmptyTracking)
       /\ chargingContextFile = None
            => /\ chargingContext' = DefaultChargingContext
               /\ NoWriteFailed => chargingContextFile' = Some(DefaultChargingContext)
    ]_vars

\* C17: for each store, if its file exists but cannot be parsed, the default
\* becomes the in-memory value and the file is left as it is.
C17_CorruptFileKept ==
  [][Hydration =>
       /\ settingsFile = Some(Corrupt)
            => settings' = DefaultSettings /\ settingsFile' = settingsFile
       /\ controlStateFile = Some(Corrupt)
            => controlState' = DefaultControlState /\ controlStateFile' = controlStateFile
       /\ plugTrackingFile = Some(Corrupt)
            => plugStatusTracking' = EmptyTracking /\ plugTrackingFile' = plugTrackingFile
       /\ chargingContextFile = Some(Corrupt)
            => /\ chargingContext' = DefaultChargingContext
               /\ chargingContextFile' = chargingContextFile
    ]_vars

\* a settings document with every absent field that has a default set to it
OverDefaultSettings(doc) ==
  [f \in DOMAIN DefaultSettings |-> IF doc[f] = None THEN DefaultSettings[f] ELSE doc[f]]

\* C18: in every store, a parsed document is merged over the defaults: a field
\* the file lacks and that has a default takes the default, a field the file
\* holds keeps its value.
C18_LoadMergesOverDefaults ==
  [][Hydration =>
       /\ Readable(settingsFile) => settings' = OverDefaultSettings(settingsFile[1])
       /\ Readable(controlStateFile)
            => controlState' = Merge(DefaultControlState, controlStateFile[1])
       /\ Readable(plugTrackingFile)
            => plugStatusTracking' = Merge(EmptyTracking, plugTrackingFile[1])
       /\ Readable(chargingContextFile)
            => chargingContext' = Merge(DefaultChargingContext, chargingContextFile[1])
    ]_vars

\* C19: no failure of the file system (a missing, unreadable, corrupt or
\* unwritable file, a data directory that is missing and cannot be created)
\* leaves the constructor as an error: it completes with all four values set.
C19_ConstructionNeverThrows ==
  [][\A written \in BOOLEAN :
       Construct(written) => (constructed' = "yes" /\ settings' # None)]_vars

\* C20: after hydration and after every completed mutating operation, while
\* no write has failed, each file holds the in-memory value of its store.
C20_FilesEqualMemory ==
  (constructed = "yes" /\ writeFailures = 0)
    => /\ settingsFile = Some(settings)
       /\ controlStateFile = Some(controlState)
       /\ plugTrackingFile = Some(plugStatusTracking)
       /\ chargingContextFile = Some(chargingContext)

(***************************************************************************)
(* Properties of the plug tracking (specification SpecAlias)               *)
(***************************************************************************)
\* C21: the stored plug tracking changes only through savePlugStatusTracking:
\* an assignment to a field of an object that getPlugStatusTracking() returned,
\* or of the object passed to an earlier savePlugStatusTracking, leaves what
\* getPlugStatusTracking() returns as it was.
C21_OnlySaveChangesTracking ==
  [][\A i \in DOMAIN held : \A updates \in TrackingUpdates :
       CallerMutates(i, updates) => getPlugStatusTracking' = getPlugStatusTracking]_vars

(***************************************************************************)
(* Properties of the log entries (specification SpecRing)                  *)
(***************************************************************************)
\* the entries are consecutive, oldest first
InInsertionOrder(q) == \A i \in 1..(Len(q) - 1) : q[i + 1] = q[i] + 1

\* C22: after any sequence of addLog calls at most maxLogs entries are
\* retained, in insertion order; an addLog puts its entry last, and beyond the
\* cap it drops exactly the oldest entry, so the retained entries are the most
\* recent maxLogs.
C22_LogRingBuffer ==
  [][/\ Len(getLogs') <= maxLogs
     /\ InInsertionOrder(getLogs')
     /\ AddLog => /\ getLogs'[Len(getLogs')] = NextLogId
                  /\ Len(getLogs') = (IF Len(logs) < maxLogs THEN Len(logs) + 1 ELSE maxLogs)
    ]_vars

\* the cap was exceeded more than once: the two oldest entries are gone
C22_Witness ==
  /\ Len(getLogs) = maxLogs
  /\ getLogs[1] = 3
  /\ getLogs[maxLogs] = maxLogs + 2

\* ---- saves that enter, leave or stay in demo mode ----

Entering(payload) == ~IsTrue(settings.demoMode) /\ IsTrue(payload.demoMode)
Leaving(payload) == IsTrue(settings.demoMode) /\ ~IsTrue(payload.demoMode)
Staying(payload) == IsTrue(settings.demoMode) /\ IsTrue(payload.demoMode)

\* what entering demo mode does to the two addresses and to a FHEM URL that the
\* payload has
EnteredAddresses(payload, stored) ==
  /\ stored.wallboxIp = Some(MockWallboxIp)
  /\ stored.wallboxIpBackup = payload.wallboxIp
  /\ stored.e3dcIp = Some(MockE3dcIp)
  /\ stored.e3dcIpBackup = IF Truthy(payload.e3dcIp) THEN payload.e3dcIp
                           ELSE payload.e3dcIpBackup
  /\ Truthy(payload.pvSurplusOnUrl)
       => /\ stored.pvSurplusOnUrl = Some(MockOnUrl)
          /\ stored.pvSurplusOnUrlBackup = payload.pvSurplusOnUrl
  /\ Truthy(payload.pvSurplusOffUrl)
       => /\ stored.pvSurplusOffUrl = Some(MockOffUrl)
          /\ stored.pvSurplusOffUrlBackup = payload.pvSurplusOffUrl

C24_LeaveDemoRestoresAndDropsBackups ==
  [][\A payload \in AnyPayloads(settings) :
       (SaveSettings(payload, TRUE) /\ Leaving(payload))
         => /\ Truthy(settings.wallboxIpBackup)
                 => settings'.wallboxIp = settings.wallboxIpBackup
            /\ Truthy(settings.e3dcIpBackup)
                 => settings'.e3dcIp = settings.e3dcIpBackup
            /\ Truthy(settings.pvSurplusOnUrlBackup)
                 => settings'.pvSurplusOnUrl = settings.pvSurplusOnUrlBackup
            /\ Truthy(settings.pvSurplusOffUrlBackup)
                 => settings'.pvSurplusOffUrl = settings.pvSurplusOffUrlBackup
            /\ settings'.wallboxIpBackup = None
            /\ settings'.e3dcIpBackup = None
            /\ settings'.pvSurplusOnUrlBackup = None
            /\ settings'.pvSurplusOffUrlBackup = None]_vars

\* the parts of C24 that every leaving save of the model satisfies: the four
\* restores, and the removal of the three backups other than e3dcIpBackup
C24_HoldsButForE3dcIpBackup ==
  [][\A payload \in AnyPayloads(settings) :
       (SaveSettings(payload, TRUE) /\ Leaving(payload))
         => /\ Truthy(settings.wallboxIpBackup)
                 => settings'.wallboxIp = settings.wallboxIpBackup
            /\ Truthy(settings.e3dcIpBackup)
                 => /\ settings'.e3dcIp = settings.e3dcIpBackup
                    /\ settings'.e3dcIpBackup = None
            /\ ~Truthy(settings.e3dcIpBackup)
                 => settings'.e3dcIpBackup = payload.e3dcIpBackup
            /\ Truthy(settings.pvSurplusOnUrlBackup)
                 => settings'.pvSurplusOnUrl = settings.pvSurplusOnUrlBackup
            /\ Truthy(settings.pvSurplusOffUrlBackup)
                 => settings'.pvSurplusOffUrl = settings.pvSurplusOffUrlBackup
            /\ settings'.wallboxIpBackup = None
            /\ settings'.pvSurplusOnUrlBackup = None
            /\ settings'.pvSurplusOffUrlBackup = None]_vars

\* C25 as stated: after a save with demo mode on before and after, the stored
\* wallboxIp, e3dcIp and both FHEM URLs equal their mock values, whatever the
\* payload carried.
C25_StayDemoAllLiveFieldsMock ==
  [][\A payload \in AnyPayloads(settings) :
       (SaveSettings(payload, TRUE) /\ Staying(payload))
         => /\ settings'.wallboxIp = Some(MockWallboxIp)
            /\ settings'.e3dcIp = Some(MockE3dcIp)
            /\ settings'.pvSurplusOnUrl = Some(MockOnUrl)
            /\ settings'.pvSurplusOffUrl = Some(MockOffUrl)]_vars

\* C25, amended: after such a save wallboxIp and both FHEM URLs equal their
\* mock values, and e3dcIp equals its mock value or is absent - absent exactly
\* when the payload has none and the previously stored one is not the mock.
C25_StayDemoNoRealLiveField ==
  [][\A payload \in AnyPayloads(settings) :
       (SaveSettings(payload, TRUE) /\ Staying(payload))
         => /\ settings'.wallboxIp = Some(MockWallboxIp)
            /\ settings'.pvSurplusOnUrl = Some(MockOnUrl)
            /\ settings'.pvSurplusOffUrl = Some(MockOffUrl)
            /\ IF ~Truthy(payload.e3dcIp) /\ settings.e3dcIp # Some(MockE3dcIp)
               THEN settings'.e3dcIp = payload.e3dcIp
               ELSE settings'.e3dcIp = Some(MockE3dcIp)]_vars

\* a save in demo mode whose payload carried a real E3DC address has stored
\* the mock values in all four live fields
C25_Witness ==
  /\ toggle.phase = "newE3dcIp"
  /\ settings.wallboxIp = Some(MockWallboxIp)
  /\ settings.e3dcIp = Some(MockE3dcIp)
  /\ settings.pvSurplusOnUrl = Some(MockOnUrl)
  /\ settings.pvSurplusOffUrl = Some(MockOffUrl)

\* a backup field after a save in demo mode: the previously stored value if the
\* payload carries none, the payload's value if it carries one
Preserved(field, payload) ==
  /\ (~Truthy(payload[field]) /\ Truthy(settings[field]))
       => settings'[field] = settings[field]
  /\ Truthy(payload[field]) => settings'[field] = payload[field]

\* C26 as stated: on a save with demo mode on before and after, each of the
\* four backup fields that the payload omits keeps its previously stored value,
\* and a backup carried by the payload is stored as given.
C26_StayDemoKeepsEveryBackup ==
  [][\A payload \in AnyPayloads(settings) :
       (SaveSettings(payload, TRUE) /\ Staying(payload))
         => /\ Preserved("wallboxIpBackup", payload)
            /\ Preserved("e3dcIpBackup", payload)
            /\ Preserved("pvSurplusOnUrlBackup", payload)
            /\ Preserved("pvSurplusOffUrlBackup", payload)]_vars

\* C26, amended: the same for wallboxIpBackup and the two URL backups, and for
\* e3dcIpBackup when the payload's e3dcIp is the mock address, or is absent
\* while the stored e3dcIp is the mock address.
C26_StayDemoKeepsBackupUnlessE3dcChanges ==
  [][\A payload \in AnyPayloads(settings) :
       (SaveSettings(payload, TRUE) /\ Staying(payload))
         => /\ Preserved("wallboxIpBackup", payload)
            /\ Preserved("pvSurplusOnUrlBackup", payload)
            /\ Preserved("pvSurplusOffUrlBackup", payload)
            /\ (\/ payload.e3dcIp = Some(MockE3dcIp)
                \/ ~Truthy(payload.e3dcIp) /\ settings.e3dcIp = Some(MockE3dcIp))
                 => Preserved("e3dcIpBackup", payload)]_vars

\* a save in demo mode whose payload omitted the stored wallboxIpBackup has
\* kept that backup
C26_Witness ==
  /\ toggle.phase = "backupOmitted"
  /\ IsTrue(settings.demoMode)
  /\ settings.wallboxIpBackup = Some(DefaultWallboxIp)
  /\ settings.e3dcIp = Some(MockE3dcIp)

\* the payloads of the client that leave demo mode once stored is saved
LeavePayloads(stored) == { q \in AnyPayloads(stored) : ~IsTrue(q.demoMode) }

\* C27: a save with demo mode on before and after whose payload carries an
\* e3dcIp other than the mock address stores that address as e3dcIpBackup, in
\* place of any earlier backup, and the mock address as e3dcIp; the save that
\* then leaves demo mode stores that address as e3dcIp.
C27_NewE3dcIpMovesToBackup ==
  [][\A payload \in AnyPayloads(settings) :
       (/\ SaveSettings(payload, TRUE)
        /\ Staying(payload)
        /\ Truthy(payload.e3dcIp)
        /\ payload.e3dcIp # Some(MockE3dcIp))
         => /\ settings'.e3dcIpBackup = payload.e3dcIp
            /\ settings'.e3dcIp = Some(MockE3dcIp)
            /\ \A q \in LeavePayloads(settings') :
                 saveSettings(settings', q).e3dcIp = payload.e3dcIp]_vars

\* a save in demo mode with a new E3DC address has put it in place of the
\* earlier backup, and a leaving save is possible next
C27_Witness ==
  /\ toggle.phase = "newE3dcIp"
  /\ settings.e3dcIp = Some(MockE3dcIp)
  /\ settings.e3dcIpBackup = Some("10.0.0.8")
  /\ LeavePayloads(settings) # {}

\* C28: a save with demo mode on before and after whose payload has no e3dcIp,
\* while the stored e3dcIp is an address other than the mock, stores neither
\* e3dcIp nor e3dcIpBackup, and the save that then leaves demo mode stores no
\* e3dcIp but one its own payload supplies.
C28_ClearedE3dcIpStaysCleared ==
  [][\A payload \in AnyPayloads(settings) :
       (/\ SaveSettings(payload, TRUE)
        /\ Staying(payload)
        /\ ~Truthy(payload.e3dcIp)
        /\ Truthy(settings.e3dcIp)
        /\ settings.e3dcIp # Some(MockE3dcIp))
         => /\ ~Truthy(settings'.e3dcIp)
            /\ settings'.e3dcIpBackup = None
            /\ \A q \in LeavePayloads(settings') :
                 saveSettings(settings', q).e3dcIp
                   = IF q.e3dcIp = Some(MockE3dcIp) THEN None ELSE q.e3dcIp]_vars

\* a real E3DC address stored in demo mode was cleared by a save: no address
\* and no backup are stored
C28_Witness ==
  /\ toggle.phase = "e3dcIpCleared"
  /\ IsTrue(settings.demoMode)
  /\ settings.e3dcIp = None
  /\ settings.e3dcIpBackup = None
  /\ LeavePayloads(settings) # {}

\* C29: in every stored settings value, each of wallboxIp, e3dcIp and the two
\* FHEM URLs has its backup field present if and only if the field holds its
\* mock value.
C29_BackupIffMock ==
  /\ Truthy(settings.wallboxIpBackup) <=> settings.wallboxIp = Some(MockWallboxIp)
  /\ Truthy(settings.e3dcIpBackup) <=> settings.e3dcIp = Some(MockE3dcIp)
  /\ Truthy(settings.pvSurplusOnUrlBackup) <=> settings.pvSurplusOnUrl = Some(MockOnUrl)
  /\ Truthy(settings.pvSurplusOffUrlBackup) <=> settings.pvSurplusOffUrl = Some(MockOffUrl)

\* C30: from any stored non-demo settings, saving them with demoMode true,
\* then the stored value unchanged once or more, then the stored value with
\* demoMode false restores the four endpoints (an absent one is absent again)
\* and leaves no backup field.
C30_ReversibleAfterResaves ==
  (toggle.phase = "leftAfterResave" /\ NonDemoOrigin(toggle.origin[1]))
    => Restored(toggle.origin[1], settings)

\* the same round trip does restore settings that have a non-empty wallboxIp,
\* both FHEM URLs and no backup of an absent e3dcIp
C30_ReversibleWithBothUrls ==
  (/\ toggle.phase = "leftAfterResave"
   /\ NonDemoOrigin(toggle.origin[1])
   /\ LET o == toggle.origin[1]
      IN /\ Truthy(o.wallboxIp)
         /\ (o.e3dcIp = None => o.e3dcIpBackup = None)
         /\ Truthy(o.pvSurplusOnUrl)
         /\ Truthy(o.pvSurplusOffUrl))
    => Restored(toggle.origin[1], settings)

(***************************************************************************)
(* Properties of calls that are pending while the client changes           *)
(* (specifications Spec, SpecLive)                                         *)
(***************************************************************************)
\* this step spawns the external process of call c (line 96)
Starts(c) ==
  /\ c \in DOMAIN calls'
  /\ calls'[c].pc = "running"
  /\ c \in DOMAIN calls => calls[c].pc # "running"

\* C31: while no configuration is stored (disconnect() was called and no
\* configure() has succeeded since) no external process is spawned, not even
\* by a call that was waiting for the rate limit when disconnect() ran; and the
\* secrets a call sanitizes its output against are those of the configuration
\* it was admitted under.
C31_NoSpawnAfterDisconnect ==
  [][\A c \in DOMAIN calls' :
       Starts(c) => /\ config # None
                    /\ calls'[c].sens = SensitiveValuesOf(calls'[c].admitted)]_vars

\* what does hold: a call that does not wait spawns its process under the
\* configuration it was admitted under and reads that configuration's secrets
C31_HoldsWithoutWait ==
  [][\A c \in DOMAIN calls' :
       (Starts(c) /\ c \notin DOMAIN calls)
         => /\ config # None
            /\ calls'[c].sens = SensitiveValuesOf(calls'[c].admitted)]_vars

\* C32: every call of lockDischarge, unlockDischarge, enableGridCharge or
\* disableGridCharge eventually resolves or fails, given that every spawned
\* process terminates; a call starts a rate-limit wait only when it is made,
\* for more than 0 and at most RATE_LIMIT_MS milliseconds, and after the wait
\* it spawns its process whatever other calls do.
C32_CallsComplete ==
  /\ [][\A c \in DOMAIN calls' :
          /\ calls'[c].pc = "waiting"
               => \/ c \in DOMAIN calls /\ calls[c] = calls'[c]
                  \/ /\ c \notin DOMAIN calls
                     /\ calls'[c].wakeAt > now
                     /\ calls'[c].wakeAt - now <= RATE_LIMIT_MS
          /\ (c \in DOMAIN calls /\ calls[c].pc = "waiting" /\ calls'[c] # calls[c])
               => /\ calls'[c].pc = "running"
                  /\ calls'[c].startAt >= calls[c].wakeAt]_vars
  /\ \A c \in 1..MaxCalls :
       (c \in DOMAIN calls)
         ~> (c \in DOMAIN calls /\ calls[c].pc \in {"resolved", "rejected"})

\* a call that waited for the rate limit, for no more than RATE_LIMIT_MS, has
\* resolved after a call made before it
C32_Witness ==
  \E c \in DOMAIN calls :
    /\ calls[c].pc = "resolved"
    /\ calls[c].startAt > calls[c].calledAt
    /\ calls[c].startAt - calls[c].calledAt <= RATE_LIMIT_MS
    /\ calls[c].after # {}

(***************************************************************************)
(* Properties of saves of the returned object and of restarts              *)
(* (specifications SpecReturned, SpecRestart)                              *)
(***************************************************************************)
\* what the previous save stored: with every write succeeding, the content of
\* the settings file
LastSaved == settingsFile[1]

\* C33: a save of the object that getSettings() returned, after the caller
\* changed demoMode on it, applies the transition from the demoMode that the
\* previous save stored; in particular switching demo mode on this way stores
\* the real wallboxIp as wallboxIpBackup.
C33_TransitionFromStoredDemoMode ==
  [][SaveReturned
       => /\ settings' = saveSettings(LastSaved, settings)
          /\ (~IsTrue(LastSaved.demoMode) /\ IsTrue(settings.demoMode))
               => settings'.wallboxIpBackup = LastSaved.wallboxIp]_vars

====
